---------------------------- MODULE Spec2Model ----------------------------
(***************************************************************************)
(* A model of the meta-search service of YannBirba/search (server crate):  *)
(* SearchService::search (cache lookup, rate-gated fan-out over the        *)
(* engines, scoring, BinaryHeap sort, duplicate removal, cache write),     *)
(* the RateLimiter, the RedisCache and the ResultScorer.                   *)
(*                                                                         *)
(* Text is modelled as a sequence of characters, a character as a          *)
(* one-character string (a few non-ASCII characters have a name).          *)
(* An f64 of the code is an exact fraction <<numerator, denominator>> in    *)
(* lowest terms here, and NaN is the fraction with denominator 0.          *)
(* Time is counted in milliseconds.                                        *)
(***************************************************************************)
EXTENDS Integers, Sequences, FiniteSets

(***************************************************************************)
(* Characters and strings                                                  *)
(***************************************************************************)

\* The characters of the model in the order of their UTF-8 encoding, which is
\* the order String::cmp compares by.
CharOrder ==
  << " ", "\"", "#", "(", ")", "-", ".", "/",
     "0", "1", "2", "3", "4", "5", "6", "7", "8", "9", ":", "?",
     "N", "R", "S", "W", "\\",
     "a", "b", "c", "d", "e", "f", "g", "h", "i", "j", "k", "l", "m",
     "n", "o", "p", "q", "r", "s", "t", "u", "v", "w", "x", "y", "z",
     "e_acute" >>

CodeTable ==
  [c \in {CharOrder[i] : i \in 1..Len(CharOrder)} |->
     CHOOSE i \in 1..Len(CharOrder) : CharOrder[i] = c]

Code(c) == CodeTable[c]

\* char::to_lowercase on the characters of the model
LowerChar(c) ==
  CASE c = "N" -> "n"
    [] c = "R" -> "r"
    [] c = "S" -> "s"
    [] c = "W" -> "w"
    [] OTHER -> c

\* str::to_lowercase
to_lowercase(s) == [i \in 1..Len(s) |-> LowerChar(s[i])]

\* unidecode on one character: ASCII is kept, an accented letter becomes its
\* ASCII transliteration.
UnidecodeChar(c) == IF c = "e_acute" THEN <<"e">> ELSE <<c>>

RECURSIVE unidecode(_)
unidecode(s) ==
  IF s = <<>> THEN <<>> ELSE UnidecodeChar(Head(s)) \o unidecode(Tail(s))

\* str::contains(pattern)
contains(text, pat) ==
  \E i \in 0..(Len(text) - Len(pat)) : SubSeq(text, i + 1, i + Len(pat)) = pat

\* str::starts_with(prefix)
starts_with(text, pre) ==
  Len(pre) <= Len(text) /\ SubSeq(text, 1, Len(pre)) = pre

\* str::trim_end_matches(c): every trailing c is removed
RECURSIVE trim_end_matches(_, _)
trim_end_matches(s, c) ==
  IF s # <<>> /\ s[Len(s)] = c
  THEN trim_end_matches(SubSeq(s, 1, Len(s) - 1), c)
  ELSE s

\* str::replace(pat, ""): every non-overlapping match, left to right
RECURSIVE remove_all(_, _)
remove_all(s, pat) ==
  IF s = <<>> THEN <<>>
  ELSE IF starts_with(s, pat) THEN remove_all(SubSeq(s, Len(pat) + 1, Len(s)), pat)
  ELSE <<Head(s)>> \o remove_all(Tail(s), pat)

\* str::split_whitespace: the maximal runs of non-whitespace characters
RECURSIVE SplitWs(_, _, _)
SplitWs(s, cur, acc) ==
  IF s = <<>> THEN (IF cur = <<>> THEN acc ELSE Append(acc, cur))
  ELSE IF Head(s) = " "
       THEN SplitWs(Tail(s), <<>>, IF cur = <<>> THEN acc ELSE Append(acc, cur))
       ELSE SplitWs(Tail(s), Append(cur, Head(s)), acc)

split_whitespace(s) == SplitWs(s, <<>>, <<>>)

\* String::cmp: lexicographic by character, a proper prefix first.
\* -1 Less, 0 Equal, 1 Greater.
RECURSIVE StrCmp(_, _)
StrCmp(a, b) ==
  IF a = <<>> /\ b = <<>> THEN 0
  ELSE IF a = <<>> THEN -1
  ELSE IF b = <<>> THEN 1
  ELSE IF Code(Head(a)) < Code(Head(b)) THEN -1
  ELSE IF Code(Head(a)) > Code(Head(b)) THEN 1
  ELSE StrCmp(Tail(a), Tail(b))

Min3(x, y, z) ==
  IF x <= y /\ x <= z THEN x ELSE IF y <= z THEN y ELSE z

Max2(x, y) == IF x >= y THEN x ELSE y

IntCmp(x, y) == IF x < y THEN -1 ELSE IF x > y THEN 1 ELSE 0

\* strsim::levenshtein, row by row.  cur holds the columns 0..Len(cur)-1 of
\* the row of character ca; row is the row above.
RECURSIVE LevCols(_, _, _, _)
LevCols(row, ca, b, cur) ==
  IF Len(cur) = Len(b) + 1 THEN cur
  ELSE LET j == Len(cur)
           sub == row[j] + (IF ca = b[j] THEN 0 ELSE 1)
           del == row[j + 1] + 1
           ins == cur[j] + 1
       IN LevCols(row, ca, b, Append(cur, Min3(sub, del, ins)))

RECURSIVE LevRows(_, _, _, _)
LevRows(a, b, i, row) ==
  IF i > Len(a) THEN row[Len(b) + 1]
  ELSE LevRows(a, b, i + 1, LevCols(row, a[i], b, <<row[1] + 1>>))

levenshtein(a, b) == LevRows(a, b, 1, [j \in 1..(Len(b) + 1) |-> j - 1])

(***************************************************************************)
(* ResultScorer::score_result                                              *)
(*                                                                         *)
(* The code computes in f64.  The model computes the same expression in    *)
(* exact fractions and rounds once at the end, as the code does.  NaN      *)
(* arises as 0.0 / 0.0 and every operation on NaN gives NaN.               *)
(***************************************************************************)

NaN == <<0, 0>>

IsNaN(x) == x[2] = 0

RECURSIVE Gcd(_, _)
Gcd(a, b) == IF b = 0 THEN a ELSE Gcd(b, a % b)

\* n / d for n >= 0, d >= 0 (0 / 0 is NaN; the code divides nothing else by 0)
Frac(n, d) == IF d = 0 THEN NaN ELSE LET g == Gcd(n, d) IN <<n \div g, d \div g>>

FAdd(x, y) ==
  IF IsNaN(x) \/ IsNaN(y) THEN NaN
  ELSE Frac(x[1] * y[2] + y[1] * x[2], x[2] * y[2])

FMul(x, y) ==
  IF IsNaN(x) \/ IsNaN(y) THEN NaN ELSE Frac(x[1] * y[1], x[2] * y[2])

\* (x * 100.0).round() / 100.0: to the nearest hundredth, a half away from
\* zero (every score is >= 0); NaN stays NaN.
Round100(x) ==
  IF IsNaN(x) THEN NaN ELSE Frac((200 * x[1] + x[2]) \div (2 * x[2]), 100)

\* strsim::normalized_levenshtein: 1.0 for two empty strings, else
\* 1 - distance / (the longer length in characters)
normalized_levenshtein(a, b) ==
  IF a = <<>> /\ b = <<>> THEN <<1, 1>>
  ELSE LET l == Max2(Len(a), Len(b))
       IN Frac(l - levenshtein(a, b), l)

urls_blacklist ==
  << <<"b", "f", "m", "t", "v", ".", "c", "o", "m">>,
     <<"6", "0", "m", "i", "l", "l", "i", "o", "n", "s", "-", "m", "a", "g", ".", "c", "o", "m">>,
     <<"b", "b", "c", ".", "c", "o", "m">>,
     <<"j", "e", "u", "x", "v", "i", "d", "e", "o", ".", "c", "o", "m">>,
     <<"l", "i", "n", "t", "e", "r", "n", "a", "u", "t", "e", ".", "f", "r">>,
     <<"l", "e", "f", "i", "g", "a", "r", "o", ".", "f", "r">>,
     <<"l", "e", "p", "a", "r", "i", "s", "i", "e", "n", ".", "f", "r">>,
     <<"l", "e", "q", "u", "i", "p", "e", ".", "f", "r">>,
     <<"l", "a", "d", "e", "p", "e", "c", "h", "e", ".", "f", "r">>,
     <<"l", "e", "p", "o", "i", "n", "t", ".", "f", "r">>,
     <<"l", "e", "j", "d", "d", ".", "f", "r">>,
     <<"l", "e", "s", "e", "c", "h", "o", "s", ".", "f", "r">>,
     <<"l", "i", "b", "e", "r", "a", "t", "i", "o", "n", ".", "f", "r">>,
     <<"l", "c", "i", ".", "f", "r">>,
     <<"l", "e", "m", "o", "n", "d", "e", "d", "u", "t", "a", "b", "a", "c", ".", "c", "o", "m">>,
     <<"1", "6", "p", "e", "r", "s", "o", "n", "a", "l", "i", "t", "i", "e", "s", ".", "c", "o", "m">>,
     <<"f", "r", "e", "e", "c", "o", "d", "e", "c", "a", "m", "p", ".", "o", "r", "g">>,
     <<"d", "e", "v", ".", "t", "o">>,
     <<"m", "e", "d", "i", "u", "m", ".", "c", "o", "m">>,
     <<"w", "3", "s", "c", "h", "o", "o", "l", "s", ".", "c", "o", "m">> >>

relevant_urls ==
  << <<"g", "i", "t", "h", "u", "b", ".", "c", "o", "m">>,
     <<"d", "o", "c", "s", ".", "r", "s">>,
     <<"r", "e", "a", "c", "t", ".", "d", "e", "v">>,
     <<"w", "i", "k", "i", "p", "e", "d", "i", "a", ".", "o", "r", "g">>,
     <<"s", "t", "a", "c", "k", "o", "v", "e", "r", "f", "l", "o", "w", ".", "c", "o", "m">>,
     <<"y", "o", "u", "t", "u", "b", "e", ".", "c", "o", "m">>,
     <<"r", "e", "d", "d", "i", "t", ".", "c", "o", "m">>,
     <<"w", "o", "r", "d", "p", "r", "e", "s", "s", ".", "c", "o", "m">>,
     <<"g", "i", "t", "l", "a", "b", ".", "c", "o", "m">>,
     <<"b", "i", "t", "b", "u", "c", "k", "e", "t", ".", "o", "r", "g">>,
     <<"s", "o", "u", "r", "c", "e", "f", "o", "r", "g", "e", ".", "n", "e", "t">>,
     <<"c", "r", "a", "t", "e", "s", ".", "i", "o">>,
     <<"n", "p", "m", "j", "s", ".", "c", "o", "m">>,
     <<"r", "u", "s", "t", "-", "l", "a", "n", "g", ".", "o", "r", "g">>,
     <<"m", "o", "z", "i", "l", "l", "a", ".", "o", "r", "g">>,
     <<"d", "e", "v", "e", "l", "o", "p", "e", "r", ".", "m", "o", "z", "i", "l", "l", "a", ".", "o", "r", "g">>,
     <<"d", "e", "v", "e", "l", "o", "p", "e", "r", ".", "a", "n", "d", "r", "o", "i", "d", ".", "c", "o", "m">>,
     <<"d", "e", "v", "e", "l", "o", "p", "e", "r", ".", "a", "p", "p", "l", "e", ".", "c", "o", "m">>,
     <<"d", "e", "v", "e", "l", "o", "p", "e", "r", ".", "m", "i", "c", "r", "o", "s", "o", "f", "t", ".", "c", "o", "m">>,
     <<"d", "e", "v", "e", "l", "o", "p", "e", "r", ".", "c", "h", "r", "o", "m", "e", ".", "c", "o", "m">>,
     <<"d", "i", "c", "t", "i", "o", "n", "n", "a", "i", "r", "e", ".", "l", "e", "r", "o", "b", "e", "r", "t", ".", "c", "o", "m">>,
     <<"g", "o", "u", "v", ".", "f", "r">>,
     <<"o", "p", "e", "n", "c", "l", "a", "s", "s", "r", "o", "o", "m", "s", ".", "c", "o", "m">>,
     <<"l", "a", "r", "o", "u", "s", "s", "e", ".", "f", "r">>,
     <<"c", "n", "r", "t", "l", ".", "f", "r">> >>

bonus_words ==
  << <<"d", "e", "f", "i", "n", "i", "t", "i", "o", "n">>,
     <<"m", "e", "a", "n", "i", "n", "g">>,
     <<"s", "i", "g", "n", "i", "f", "i", "c", "a", "t", "i", "o", "n">>,
     <<"s", "e", "n", "s">>,
     <<"t", "u", "t", "o">>,
     <<"t", "u", "t", "o", "r", "i", "a", "l">>,
     <<"g", "u", "i", "d", "e">>,
     <<"c", "o", "u", "r", "s">>,
     <<"e", "x", "p", "l", "a", "n", "a", "t", "i", "o", "n">>,
     <<"e", "x", "p", "l", "i", "c", "a", "t", "i", "o", "n">>,
     <<"s", "i", "g", "n", "i", "f", "i", "c", "a", "t", "i", "o", "n", "s">>,
     <<"s", "e", "n", "s">>,
     <<"t", "u", "t", "o", "r", "i", "e", "l">>,
     <<"g", "u", "i", "d", "e", "s">>,
     <<"c", "o", "u", "r", "s">>,
     <<"e", "x", "p", "l", "i", "c", "a", "t", "i", "o", "n", "s">>,
     <<"w", "i", "k", "i", "p", "e", "d", "i", "a">>,
     <<"w", "i", "k", "i">>,
     <<"d", "i", "c", "t", "i", "o", "n", "n", "a", "i", "r", "e">>,
     <<"d", "i", "c", "t", "i", "o", "n", "a", "r", "y">>,
     <<"d", "o", "c", "s">>,
     <<"d", "o", "c", "u", "m", "e", "n", "t", "a", "t", "i", "o", "n">> >>

\* ResultScorer::calculate_text_relevance.  With no query word the word
\* ratio is 0.0 / 0.0.
calculate_text_relevance(text, query) ==
  LET levenshtein_score == normalized_levenshtein(text, query)
      contains_exact == IF contains(text, query) THEN <<1, 1>> ELSE <<0, 1>>
      query_words == split_whitespace(query)
      matching_words ==
        Cardinality({i \in 1..Len(query_words) : contains(text, query_words[i])})
      word_ratio == Frac(matching_words, Len(query_words))
  IN FAdd(FAdd(FMul(<<3, 10>>, levenshtein_score),
               FMul(<<4, 10>>, contains_exact)),
          FMul(<<3, 10>>, word_ratio))

AnyIn(list, text) == \E i \in 1..Len(list) : contains(text, list[i])

https == <<"h", "t", "t", "p", "s">>

\* if cond { score += x }
AddIf(cond, score, x) == IF cond THEN FAdd(score, x) ELSE score

\* if cond { score *= x }
MulIf(cond, score, x) == IF cond THEN FMul(score, x) ELSE score

\* ResultScorer::score_result
score_result(result, query) ==
  LET normalized_query == unidecode(to_lowercase(query))
      normalized_title == unidecode(to_lowercase(result.title))
      normalized_snippet == unidecode(to_lowercase(result.snippet))
      normalized_link == unidecode(to_lowercase(result.link))
      rt == calculate_text_relevance(normalized_title, normalized_query)
      rs == calculate_text_relevance(normalized_snippet, normalized_query)
      rl == calculate_text_relevance(normalized_link, query)
  IN   LET s1 == FAdd(FAdd(FMul(rt, <<1, 2>>), FMul(rs, <<3, 10>>)),
                      FMul(rl, <<1, 5>>))
           s2 == AddIf(starts_with(normalized_link, https), s1, <<1, 2>>)
           s3 == MulIf(Len(normalized_snippet) < 50 \/ Len(normalized_snippet) > 150,
                       s2, <<4, 5>>)
           s4 == MulIf(AnyIn(urls_blacklist, normalized_link), s3, <<1, 4>>)
           s5 == AddIf(AnyIn(relevant_urls, normalized_link), s4, <<3, 10>>)
           s6 == AddIf(normalized_title = normalized_query, s5, <<1, 2>>)
           s7 == AddIf(normalized_snippet = normalized_query, s6, <<3, 4>>)
           s8 == AddIf(\/ AnyIn(bonus_words, normalized_title)
                       \/ AnyIn(bonus_words, normalized_snippet)
                       \/ AnyIn(bonus_words, normalized_link),
                       s7, <<1, 2>>)
       IN Round100(s8)

(***************************************************************************)
(* SearchResult and the results the engines of the model can return        *)
(***************************************************************************)

Google == "Google"
DuckDuckGo == "DuckDuckGo"

\* SearchResult (scraper.rs).  favicon_url, site_name and breadcrumbs are
\* carried along and read by nothing in the pipeline.
Result(title, link, snippet, source, favicon_url) ==
  [ title |-> title, link |-> link, snippet |-> snippet, source |-> source,
    score |-> <<0, 1>>, favicon_url |-> favicon_url, site_name |-> "None",
    breadcrumbs |-> <<>> ]

\* GoogleScraper::parse_results keeps a result only when its link starts
\* with "http"; a missing snippet element gives the empty snippet.
G1 == Result(<<"r", "u", "s", "t">>, <<"h", "t", "t", "p", "s", ":", "/", "/", "a", ".", "i", "o", "/", "r">>, <<"r", "u", "s", "t", " ", "d", "o", "c">>, Google, "Some")
G2 == Result(<<"g", "o">>, <<"h", "t", "t", "p", ":", "/", "/", "b", ".", "i", "o">>, <<>>, Google, "None")

\* DuckDuckGoScraper::parse_results builds every link as "https://" + text.
D1 == Result(<<"r", "u", "s", "t">>, <<"h", "t", "t", "p", "s", ":", "/", "/", "a", ".", "i", "o", "/", "r">>, <<"r", "u", "s", "t", " ", "d", "o", "c">>, DuckDuckGo, "None")
D2 == Result(<<"z", "i", "g">>, <<"h", "t", "t", "p", "s", ":", "/", "/", "w", "w", "w", ".", "b", ".", "i", "o", "/">>, <<"z", "i", "g">>, DuckDuckGo, "None")

Pool == {G1, G2, D1, D2}

\* Further results, for the duplicate removal alone: T1 has the title of G1,
\* U1 the link of G1 but for the case of the path and a trailing slash, W1
\* and W2 links that differ in the case of a "www." inside the path.  T1
\* and W2 have no snippet element, like G2.
T1 == Result(<<"r", "u", "s", "t">>, <<"h", "t", "t", "p", "s", ":", "/", "/", "t", ".", "i", "o">>, <<>>, Google, "None")
U1 == Result(<<"u">>, <<"h", "t", "t", "p", ":", "/", "/", "a", ".", "i", "o", "/", "R", "/">>, <<"u", "1">>, Google, "None")
W1 == Result(<<"w", "1">>, <<"h", "t", "t", "p", ":", "/", "/", "e", ".", "i", "o", "/", "W", "W", "W", ".", "e">>, <<"x", "1">>, Google, "None")
W2 == Result(<<"w", "2">>, <<"h", "t", "t", "p", ":", "/", "/", "e", ".", "i", "o", "/", "w", "w", "w", ".", "e">>, <<>>, Google, "None")

DedupPool == Pool \cup {T1, U1, W1, W2}

(***************************************************************************)
(* ResultScorer::is_duplicate and ResultScorer::remove_duplicates          *)
(***************************************************************************)

\* The first index of character c in s, or 0
IndexOf(s, c) ==
  IF \E i \in 1..Len(s) : s[i] = c
  THEN CHOOSE i \in 1..Len(s) : s[i] = c /\ \A j \in 1..(i - 1) : s[j] # c
  ELSE 0

\* The first index at or after `from` of a character of set cs, or Len(s) + 1
FirstOf(s, from, cs) ==
  IF \E i \in from..Len(s) : s[i] \in cs
  THEN CHOOSE i \in from..Len(s) : s[i] \in cs /\ \A j \in from..(i - 1) : s[j] \notin cs
  ELSE Len(s) + 1

Letters ==
  { "a", "b", "c", "d", "e", "f", "g", "h", "i", "j", "k", "l", "m", "n", "o",
    "p", "q", "r", "s", "t", "u", "v", "w", "x", "y", "z", "N", "R", "S", "W" }

Digits == { "0", "1", "2", "3", "4", "5", "6", "7", "8", "9" }

\* Url::parse on an absolute http(s) URL, as far as host_str() and path()
\* show it: the scheme is matched without case, the slashes after the colon
\* are skipped, the host runs to the first "/", "?" or "#" (a ":port" taken
\* off) and is lowercased, an empty host is an error, the path runs to the
\* first "?" or "#" and an empty one is "/".  A string with no scheme is
\* an error (RelativeUrlWithoutBase); a scheme other than http(s) gives a
\* URL whose host is what follows "//" and whose path is the rest.
\* The result is [ok, host, path].
ParseFail == [ok |-> FALSE, host |-> <<>>, path |-> <<>>]

RECURSIVE SkipSlashes(_, _)
SkipSlashes(s, i) ==
  IF i <= Len(s) /\ s[i] \in {"/", "\\"} THEN SkipSlashes(s, i + 1) ELSE i

HostOf(authority) ==
  LET colon == IndexOf(authority, ":")
  IN IF colon > 0 /\ \A i \in (colon + 1)..Len(authority) : authority[i] \in Digits
     THEN SubSeq(authority, 1, colon - 1)
     ELSE authority

UrlParse(url) ==
  LET colon == IndexOf(url, ":")
      scheme == to_lowercase(SubSeq(url, 1, colon - 1))
  IN IF colon <= 1 \/ \E i \in 1..(colon - 1) : url[i] \notin Letters
     THEN ParseFail
     ELSE IF scheme \in {<<"h", "t", "t", "p">>, <<"h", "t", "t", "p", "s">>}
     THEN LET hostStart == SkipSlashes(url, colon + 1)
              hostEnd == FirstOf(url, hostStart, {"/", "\\", "?", "#"})
              host == to_lowercase(HostOf(SubSeq(url, hostStart, hostEnd - 1)))
              pathEnd == FirstOf(url, hostEnd, {"?", "#"})
              path == SubSeq(url, hostEnd, pathEnd - 1)
          IN IF host = <<>> THEN ParseFail
             ELSE [ok |-> TRUE, host |-> host,
                   path |-> IF path = <<>> THEN <<"/">> ELSE path]
     ELSE IF starts_with(SubSeq(url, colon + 1, Len(url)), <<"/", "/">>)
     THEN LET hostEnd == FirstOf(url, colon + 3, {"/", "?", "#"})
              pathEnd == FirstOf(url, hostEnd, {"?", "#"})
          IN [ok |-> TRUE, host |-> HostOf(SubSeq(url, colon + 3, hostEnd - 1)),
              path |-> SubSeq(url, hostEnd, pathEnd - 1)]
     ELSE LET pathEnd == FirstOf(url, colon + 1, {"?", "#"})
          IN [ok |-> TRUE, host |-> <<>>,
              path |-> SubSeq(url, colon + 1, pathEnd - 1)]

www == <<"w", "w", "w", ".">>

\* the closure normalize_url of is_duplicate
normalize_url(url) ==
  LET parsed_url == UrlParse(url)
  IN IF parsed_url.ok
     THEN to_lowercase(remove_all(
            trim_end_matches(parsed_url.host \o parsed_url.path, "/"), www))
     ELSE to_lowercase(remove_all(trim_end_matches(url, "/"), www))

\* normalized_levenshtein(a, b) > 0.9
SimilarityAbove90(a, b) ==
  LET sim == normalized_levenshtein(a, b) IN 10 * sim[1] > 9 * sim[2]

\* a comparison of the links alone
is_duplicate_by_link(result1, result2) ==
  LET url1_norm == normalize_url(result1.link)
      url2_norm == normalize_url(result2.link)
  IN \/ url1_norm = url2_norm
     \/ SimilarityAbove90(url1_norm, url2_norm)

\* ResultScorer::is_duplicate
is_duplicate(result1, result2) ==
  LET url1_norm == normalize_url(result1.link)
      url2_norm == normalize_url(result2.link)
  IN \/ url1_norm = url2_norm
     \/ SimilarityAbove90(url1_norm, url2_norm)
     \/ result1.title = result2.title
     \/ result1.snippet = result2.snippet

\* is_duplicate reads the link, the title and the snippet: it is tabulated
\* once over the results of the model.
Unscored(r) == [r EXCEPT !.score = <<0, 1>>]

DupTable == [a \in DedupPool, b \in DedupPool |-> is_duplicate(a, b)]

IsDup(result, seen_link) == DupTable[Unscored(result), Unscored(seen_link)]

\* A removal that compares a result with the last kept one only
RECURSIVE DedupLoopLastOnly(_, _)
DedupLoopLastOnly(results, seen) ==
  IF results = <<>> THEN seen
  ELSE LET result == Head(results)
           dup == seen # <<>> /\ IsDup(result, seen[Len(seen)])
       IN DedupLoopLastOnly(Tail(results),
                            IF dup THEN seen ELSE Append(seen, result))

\* A removal that compares a result with the one before it in the input
remove_adjacent_duplicates(results) ==
  LET keep == {i \in 1..Len(results) :
                 i = 1 \/ ~IsDup(results[i], results[i - 1])}
      nth(k) == CHOOSE i \in keep : Cardinality({j \in keep : j < i}) = k - 1
  IN [k \in 1..Cardinality(keep) |-> results[nth(k)]]

\* ResultScorer::remove_duplicates: one pass, a result is kept when it is a
\* duplicate of no result kept before it.
RECURSIVE DedupLoop(_, _)
DedupLoop(results, seen) ==
  IF results = <<>> THEN seen
  ELSE LET result == Head(results)
           dup == \E i \in 1..Len(seen) : IsDup(result, seen[i])
       IN DedupLoop(Tail(results), IF dup THEN seen ELSE Append(seen, result))

remove_duplicates(results) == DedupLoop(results, <<>>)

(***************************************************************************)
(* The order of SearchResult (scraper.rs) and the BinaryHeap sort of       *)
(* SearchService::search                                                   *)
(***************************************************************************)

\* What an operation that compares results yields: the vector, or a panic
\* when a comparison panicked.
Ok(vec) == [ok |-> TRUE, vec |-> vec]
Panic == [ok |-> FALSE, vec |-> <<>>]

\* f64::partial_cmp is None when a score is NaN, and cmp unwraps it.
Comparable(a, b) == ~IsNaN(a.score) /\ ~IsNaN(b.score)

\* f64::partial_cmp of two numbers
FCmp(x, y) == IntCmp(x[1] * y[2], y[1] * x[2])

\* Ordering::then_with
Then(o, next) == IF o # 0 THEN o ELSE next

\* the scores compared straight (self against other)
cmp_scores_ascending(self, other) ==
  Then(FCmp(self.score, other.score),
       Then(StrCmp(self.title, other.title), StrCmp(self.link, other.link)))

\* impl Ord for SearchResult: cmp(self, other), the scores compared in
\* reverse (other against self), then title, then link.
\* -1 Less, 0 Equal, 1 Greater; defined for comparable results.
cmp(self, other) ==
  Then(FCmp(other.score, self.score),
       Then(StrCmp(self.title, other.title), StrCmp(self.link, other.link)))

\* impl PartialOrd: partial_cmp is Some(cmp), so <=, < and >= follow cmp.
le(a, b) == cmp(a, b) <= 0
lt(a, b) == cmp(a, b) < 0
ge(a, b) == cmp(a, b) >= 0

\* impl PartialEq for SearchResult: the scores alone (NaN equals nothing)
eq(self, other) == Comparable(self, other) /\ self.score = other.score

\* BinaryHeap::sift_up(start, pos).  data is the heap's vector (position p
\* of the code is index p + 1), elt the element taken out of the hole at pos.
RECURSIVE sift_up(_, _, _, _)
sift_up(data, start, pos, elt) ==
  IF pos > start
  THEN LET parent == (pos - 1) \div 2
       IN IF ~Comparable(elt, data[parent + 1]) THEN Panic
          ELSE IF le(elt, data[parent + 1])
          THEN Ok([data EXCEPT ![pos + 1] = elt])
          ELSE sift_up([data EXCEPT ![pos + 1] = data[parent + 1]],
                       start, parent, elt)
  ELSE Ok([data EXCEPT ![pos + 1] = elt])

\* BinaryHeap::push
push(heap, item) ==
  IF ~heap.ok THEN Panic
  ELSE sift_up(Append(heap.vec, item), 0, Len(heap.vec), item)

\* for result in all_results { heap.push(result) }
RECURSIVE PushAll(_, _)
PushAll(heap, results) ==
  IF results = <<>> THEN heap
  ELSE PushAll(push(heap, Head(results)), Tail(results))

\* BinaryHeap::sift_down_range(pos, end): the loop over the children of the
\* hole (while child <= end.saturating_sub(2)), then the last child alone.
RECURSIVE sift_down_loop(_, _, _, _)
sift_down_loop(data, hole, end, elt) ==
  LET child == 2 * hole + 1
  IN IF child <= Max2(end - 2, 0)
     THEN IF ~Comparable(data[child + 1], data[child + 2]) THEN Panic
          ELSE LET c == IF le(data[child + 1], data[child + 2])
                        THEN child + 1 ELSE child
               IN IF ~Comparable(elt, data[c + 1]) THEN Panic
                  ELSE IF ge(elt, data[c + 1])
                  THEN Ok([data EXCEPT ![hole + 1] = elt])
                  ELSE sift_down_loop([data EXCEPT ![hole + 1] = data[c + 1]],
                                      c, end, elt)
     ELSE IF child = end - 1
     THEN IF ~Comparable(elt, data[child + 1]) THEN Panic
          ELSE IF lt(elt, data[child + 1])
          THEN Ok([data EXCEPT ![hole + 1] = data[child + 1], ![child + 1] = elt])
          ELSE Ok([data EXCEPT ![hole + 1] = elt])
     ELSE Ok([data EXCEPT ![hole + 1] = elt])

sift_down_range(data, pos, end) == sift_down_loop(data, pos, end, data[pos + 1])

\* BinaryHeap::into_sorted_vec: while end > 1, the root is swapped with the
\* last element of the heap and sifted down in what is left.
RECURSIVE SortedLoop(_, _)
SortedLoop(heap, end) ==
  IF ~heap.ok THEN Panic
  ELSE IF end > 1
  THEN LET e == end - 1
           data == heap.vec
           swapped == [data EXCEPT ![1] = data[e + 1], ![e + 1] = data[1]]
       IN SortedLoop(sift_down_range(swapped, 0, e), e)
  ELSE heap

into_sorted_vec(heap) == SortedLoop(heap, Len(heap.vec))

\* heap = BinaryHeap::new(); push each; heap.into_sorted_vec()
HeapSort(results) == into_sorted_vec(PushAll(Ok(<<>>), results))

(***************************************************************************)
(* Requests, the cache key, the JSON payload                               *)
(***************************************************************************)

\* Option<T>: None is <<>>, Some(v) is <<v>>.
None == <<>>
Some(v) == <<v>>

\* The parameters of one search call (SearchParams)
Request(query, page, date_range, region, language) ==
  [ query |-> query, page |-> page, date_range |-> date_range,
    region |-> region, language |-> language ]

\* Display of an unsigned integer
RECURSIVE Decimal(_)
Decimal(n) ==
  LET digit == <<"0", "1", "2", "3", "4", "5", "6", "7", "8", "9">>[(n % 10) + 1]
  IN IF n < 10 THEN <<digit>> ELSE Append(Decimal(n \div 10), digit)

\* Debug of a str escapes the quote and the backslash
RECURSIVE EscapeDebug(_)
EscapeDebug(s) ==
  IF s = <<>> THEN <<>>
  ELSE (IF Head(s) \in {"\"", "\\"} THEN <<"\\", Head(s)>> ELSE <<Head(s)>>)
       \o EscapeDebug(Tail(s))

\* {} of an Option's value, were it written as its own text
DisplayOption(o) ==
  IF o = None THEN <<"N", "o", "n", "e">> ELSE o[1]

\* {:?} of an Option<&str>
DebugOption(o) ==
  IF o = None THEN <<"N", "o", "n", "e">>
  ELSE <<"S", "o", "m", "e", "(", "\"">> \o EscapeDebug(o[1]) \o <<"\"", ")">>

\* Option::unwrap_or_default
unwrap_or_default(o, default) == IF o = None THEN 0 ELSE o[1]

unwrap_or(o, default) == IF o = None THEN default ELSE o[1]

\* format!("search:{}:{}:{:?}:{:?}:{:?}", query, page.unwrap_or(1),
\*         date_range, region, language)
cache_key(r) ==
  <<"s", "e", "a", "r", "c", "h", ":">> \o r.query \o <<":">> \o Decimal(unwrap_or(r.page, 1)) \o <<":">>
    \o DebugOption(r.date_range) \o <<":">> \o DebugOption(r.region) \o <<":">>
    \o DebugOption(r.language)

\* format!("autocomplete:{}", query)
autocomplete_key(query) ==
  <<"a", "u", "t", "o", "c", "o", "m", "p", "l", "e", "t", "e", ":">> \o query

\* serde_json::to_string of a Vec<SearchResult>: every field is written as
\* it is, except that a score that is not finite is written as null.
JsonNull == <<>>

to_json(results) ==
  [i \in 1..Len(results) |->
     [results[i] EXCEPT !.score = IF IsNaN(@) THEN JsonNull ELSE <<@>>]]

\* serde_json::from_str::<Vec<SearchResult>>: null is no f64, so a payload
\* with a null score does not deserialize.
from_json(payload) ==
  IF \E i \in 1..Len(payload) : payload[i].score = JsonNull THEN None
  ELSE Some([i \in 1..Len(payload) |->
               [payload[i] EXCEPT !.score = @[1]]])

(***************************************************************************)
(* RedisCache: a key holds a payload until its expiry time                 *)
(***************************************************************************)

\* Duration::from_secs(300), in milliseconds
TtlSecs == 300
TtlMs == TtlSecs * 1000

\* GET that never expires a key
RedisGetNoExpiry(store, key, time) ==
  IF store[key] # None THEN Some(store[key][1].payload) ELSE None

\* GET: the payload of a key that is set and not expired
RedisGet(store, key, time) ==
  IF store[key] # None /\ time < store[key][1].expires
  THEN Some(store[key][1].payload) ELSE None

\* a get that answers an empty list when the pool or the command fails
cache_get_or_default(store, key, time, backendOk) ==
  IF ~backendOk THEN Some(<<>>)
  ELSE LET result == RedisGet(store, key, time)
       IN IF result = None THEN None ELSE from_json(result[1])

\* RedisCache::get: None when the pool or the command fails, when the key
\* holds nothing, and when the payload does not deserialize
cache_get(store, key, time, backendOk) ==
  IF ~backendOk THEN None
  ELSE LET result == RedisGet(store, key, time)
       IN IF result = None THEN None ELSE from_json(result[1])

\* a set that stores no empty list
cache_set_nonempty(store, key, value, ttlMs, time, backendOk) ==
  IF ~backendOk \/ value = <<>> THEN store
  ELSE [store EXCEPT ![key] =
          Some([payload |-> to_json(value), expires |-> time + ttlMs])]

\* RedisCache::set: SETEX key ttl payload; nothing is stored when the pool
\* or the command fails
cache_set(store, key, value, ttlMs, time, backendOk) ==
  IF ~backendOk THEN store
  ELSE [store EXCEPT ![key] =
          Some([payload |-> to_json(value), expires |-> time + ttlMs])]

(***************************************************************************)
(* RateLimiter: one governor limiter per engine name, each with            *)
(* Quota::per_second(5).  The limiter runs the generic cell rate           *)
(* algorithm: its state is the theoretical arrival time tat of the next    *)
(* cell; a cell is let through at time t when t >= tat - tolerance and     *)
(* then tat becomes max(tat, t) + interval.  That is a bucket of Burst     *)
(* cells refilled by one cell every interval.                              *)
(***************************************************************************)

Burst == 5
ReplenishMs == 1000 \div Burst
ToleranceMs == (Burst - 1) * ReplenishMs

Engines == {Google, DuckDuckGo}

\* the keys of RateLimiter::limiters
KnownEngines == {Google, DuckDuckGo}

\* a tolerance of a whole Burst of intervals
GcraAllowsOneMore(tatv, time) == time >= tatv - Burst * ReplenishMs

GcraAllows(tatv, time) == time >= tatv - ToleranceMs

GcraNext(tatv, time) == Max2(tatv, time) + ReplenishMs

\* the cells a limiter would let through at `time` with no time passing
TokensAt(tatv, time) ==
  IF ~GcraAllows(tatv, time) THEN 0
  ELSE (time + ToleranceMs - Max2(tatv, time)) \div ReplenishMs + 1

(***************************************************************************)
(* Engines                                                                 *)
(***************************************************************************)

\* u32::MAX / 10: (page - 1) * 10 overflows a u32 above this value of page - 1
MaxTimes10 == 429496729

\* Whether computing the result offset panics.  GoogleScraper::search
\* computes (page - 1) * 10 when page > 1, DuckDuckGoScraper::search when
\* page != 1, so with page = 0 it subtracts below zero.  An overflow panics
\* in a build with overflow checks (debug) and wraps in one without.
OffsetPanics(engine, page, checked) ==
  /\ checked
  /\ \/ engine = DuckDuckGo /\ page = 0
     \/ page > 1 /\ page - 1 > MaxTimes10

\* What SearchEngine::search can come back with once the request is sent:
\* Ok(results) or Err(SearchError)
OkResults(results) == [ok |-> TRUE, results |-> results, error |-> "none"]
Err(error) == [ok |-> FALSE, results |-> <<>>, error |-> error]

SearchErrors == {"RequestError", "ParsingError"}

EngineResponses(engine) ==
  IF engine = Google THEN {<<G2, G1>>} ELSE {<<D1>>, <<D1, D2>>}

EngineOutcomes(engine) ==
  {OkResults(rs) : rs \in EngineResponses(engine)} \cup {Err(e) : e \in SearchErrors}

(***************************************************************************)
(* The requests of the model                                               *)
(***************************************************************************)

Rust == <<"r", "u", "s", "t">>

ReqRust == Request(Rust, None, None, None, None)
ReqEmpty == Request(<<>>, None, None, None, None)
ReqPageZero == Request(Rust, Some(0), None, None, None)

Requests == {ReqRust, ReqEmpty, ReqPageZero}

Queries == {r.query : r \in Requests}

CacheKeys == {cache_key(r) : r \in Requests}

KeyTable == [r \in Requests |-> cache_key(r)]

\* The requests whose keys are compared: queries and option values with
\* ":" and with a quote, an option absent, empty and present, the page
\* absent, 1 and 2.
KeyRequests ==
  {Request(q, p, d, g, l) :
     q \in {Rust, <<"r", ":", "1">>, <<>>},
     p \in {None, Some(1), Some(2)},
     d \in {None, Some(<<"N", "o", "n", "e">>), Some(<<":">>)},
     g \in {None, Some(<<"f", "r">>)},
     l \in {None, Some(<<>>), Some(<<"\"">>)}}

\* The queries of the autocomplete calls of the model; the cache is
\* indexed by the query, which the key "autocomplete:{query}" determines.
AcQueries == {Rust, <<>>}

\* What the suggestion upstream can come back with: reqwest::get fails,
\* response.text() fails, or a body.  A body is its lines; of a line the
\* model keeps whether it starts with "[" and what serde_json::from_str
\* makes of it (None: no JSON).  A JSON value is [kind, text, items]: a
\* string has a text, an array has items, a number has neither.
UpstreamOutcomes ==
  LET str(text) == [kind |-> "str", text |-> text, items |-> <<>>]
      arr(items) == [kind |-> "arr", text |-> <<>>, items |-> items]
      num == [kind |-> "num", text |-> <<>>, items |-> <<>>]
      line(bracket, parsed) == [bracket |-> bracket, json |-> parsed]
      r == str(<<"r">>)
      ru == str(<<"r", "u">>)
      rus == str(<<"r", "u", "s">>)
      guard == line(FALSE, None)
      both == line(TRUE, Some(arr(<< arr(<< arr(<<ru, num>>), arr(<<r, num>>) >>),
                                     arr(<<>>) >>)))
      mixed == line(TRUE, Some(arr(<< arr(<< arr(<<num, rus>>), rus, arr(<<>>),
                                            arr(<<rus>>) >>) >>)))
      broken == line(TRUE, None)
      indented == line(FALSE, Some(arr(<< arr(<< arr(<<r>>) >>) >>)))
      flat == line(TRUE, Some(arr(<< ru, r >>)))
      ok(body) == [ok |-> TRUE, error |-> "none", body |-> body]
  IN { [ok |-> FALSE, error |-> "request", body |-> <<>>],
       [ok |-> FALSE, error |-> "body", body |-> <<>>],
       ok(<<>>),
       ok(<< guard, both >>),
       ok(<< mixed, broken, both >>),
       ok(<< indented, flat >>) }

\* the loop of SearchService::autocomplete over body.lines(): of each line
\* that starts with "[" and is JSON whose element 0 is an array, the element
\* 0 of each item of that array, when it is a string, in order
RECURSIVE suggestions(_)
suggestions(lines) ==
  IF lines = <<>> THEN <<>>
  ELSE LET first == Head(lines)
           get0(v) == IF v.kind = "arr" /\ v.items # <<>>
                      THEN Some(v.items[1]) ELSE None
           isText(v) == get0(v) # None /\ get0(v)[1].kind = "str"
           found == IF first.bracket /\ first.json # None
                       /\ get0(first.json[1]) # None
                       /\ get0(first.json[1])[1].kind = "arr"
                    THEN LET picked == SelectSeq(get0(first.json[1])[1].items,
                                                 isText)
                         IN [i \in 1..Len(picked) |-> picked[i].items[1].text]
                    ELSE <<>>
       IN found \o suggestions(Tail(lines))

\* a scoring that adds one to the results of Google
ScoreTableBySource ==
  [r \in Pool, q \in Queries |->
     IF r.source = Google THEN FAdd(score_result(r, q), <<1, 1>>)
     ELSE score_result(r, q)]

\* score_result, tabulated once over the results and the queries of the model
ScoreTable == [r \in Pool, q \in Queries |-> score_result(r, q)]

\* a loop that leaves the first result with the score it came with
score_all_but_first(results, query) ==
  [i \in 1..Len(results) |->
     IF i = 1 THEN results[i]
     ELSE [results[i] EXCEPT !.score = ScoreTable[results[i], query]]]

\* for result in &mut all_results { result.score = score_result(result, query) }
score_all(results, query) ==
  [i \in 1..Len(results) |->
     [results[i] EXCEPT !.score = ScoreTable[results[i], query]]]

(***************************************************************************)
(* The state                                                               *)
(***************************************************************************)

MaxCalls == 2
MaxTicks == 1
MaxCallers == 7
MaxSortLen == 3
MaxDedupLen == 3
MaxPasses == 2
MaxChecks == 6
MaxAcCalls == 2

Calls == 1..MaxCalls
Callers == 1..MaxCallers

VARIABLES
  now,             \* the time, in ms since the service was constructed
  ticks,           \* how many times the clock of the model has advanced
  overflow_checks, \* whether the build panics on integer overflow
  tat,             \* RateLimiter: the state of each engine's limiter
  cache,           \* Redis: key -> None or Some([payload, expires])
  pc,              \* each search call: idle, fanout, done, panicked
  req,             \* each call's parameters
  unit,            \* each call's engine units: pending, searching, ok, failed, denied
  contrib,         \* what each engine unit contributed
  all_results,     \* each call's all_results, in the order the units finished
  ret,             \* what each call returned
  hit,             \* whether the call returned from the cache
  rl_checks,       \* how many times each call consulted the limiter, per engine
  searches,        \* how many times each call invoked engine.search, per engine
  done_at,         \* when each call returned
  pred,            \* at a call's start: the calls with its parameters that
                   \* returned less than the TTL ago
  writer,          \* per key: the call whose write the key holds (0: none)
  served_by,       \* for a call served from the cache: the writer of the entry
  rl_pc,           \* each direct caller of check_rate_limit: idle, read, granted, denied
  rl_t0,           \* the time the caller measured
  rl_seen,         \* the limiter state the caller loaded
  sort_in,         \* the input of the sorting step
  sort_out,        \* its output, None before it ran
  dedup_in,        \* the input of remove_duplicates
  dedup_out,       \* the outputs of its successive passes
  key_in,          \* two requests whose cache keys are built
  key_out,         \* their search cache keys, None before they are built
  ac_out,          \* their autocomplete cache keys, None before they are built
  last_check,      \* the last direct call of check_rate_limit by name
  ac_cache,        \* Redis: autocomplete key -> None or Some([payload, expires])
  ac_call,         \* each autocomplete call: where it is (idle, upstream,
                   \* done), its query, what the upstream came back with,
                   \* what it returned, whether it returned from the cache,
                   \* how many upstream requests it sent
  score_in,        \* a result and two queries it is scored for
  score_out,       \* the two scores, None before they are computed
  main_pc,         \* where main() is: env, connect, flush, bind, serving,
                   \* exited, panicked
  flushes          \* how many FLUSHDB commands Redis has executed

clock == << now, ticks >>

service == << overflow_checks, cache, pc, req, unit, contrib, all_results,
              ret, hit, rl_checks, searches, done_at, pred, writer, served_by >>

callers == << rl_pc, rl_t0, rl_seen >>

sorting == << sort_in, sort_out >>

deduping == << dedup_in, dedup_out >>

keying == << key_in, key_out, ac_out >>

probes == << deduping, keying, last_check, ac_cache, ac_call, score_in,
             score_out, main_pc, flushes >>

vars == << clock, tat, service, callers, sorting, probes >>

\* the limiter's state after k cells were taken at time 0
TatAfter(k) == k * ReplenishMs

\* cells that earlier requests have taken when the model starts
PriorCells == {0, Burst}

InitClock == now = 0 /\ ticks = 0

InitService ==
  /\ cache = [k \in CacheKeys |-> None]
  /\ pc = [c \in Calls |-> "idle"]
  /\ req = [c \in Calls |-> ReqRust]
  /\ unit = [c \in Calls |-> [e \in Engines |-> "pending"]]
  /\ contrib = [c \in Calls |-> [e \in Engines |-> <<>>]]
  /\ all_results = [c \in Calls |-> <<>>]
  /\ ret = [c \in Calls |-> <<>>]
  /\ hit = [c \in Calls |-> FALSE]
  /\ rl_checks = [c \in Calls |-> [e \in Engines |-> 0]]
  /\ searches = [c \in Calls |-> [e \in Engines |-> 0]]
  /\ done_at = [c \in Calls |-> 0]
  /\ pred = [c \in Calls |-> {}]
  /\ writer = [k \in CacheKeys |-> 0]
  /\ served_by = [c \in Calls |-> 0]

InitCallers ==
  /\ rl_pc = [k \in Callers |-> "idle"]
  /\ rl_t0 = [k \in Callers |-> 0]
  /\ rl_seen = [k \in Callers |-> 0]

InitSorting == sort_in = <<>> /\ sort_out = None

InitDeduping == dedup_in = <<>> /\ dedup_out = <<>>

InitAutocomplete ==
  /\ ac_cache = [q \in AcQueries |-> None]
  /\ ac_call = [c \in 1..MaxAcCalls |->
                  [pc |-> "idle", query |-> <<>>, outcome |-> None,
                   ret |-> <<>>, hit |-> FALSE, requests |-> 0]]

InitProbes ==
  /\ InitDeduping
  /\ key_in = << ReqRust, ReqRust >> /\ key_out = None /\ ac_out = None
  /\ last_check = None
  /\ InitAutocomplete
  /\ score_in = None /\ score_out = None
  /\ main_pc = "serving" /\ flushes = 1

Init ==
  /\ InitClock
  /\ overflow_checks \in BOOLEAN
  /\ tat \in [KnownEngines -> {TatAfter(k) : k \in PriorCells}]
  /\ InitService
  /\ InitCallers
  /\ InitSorting
  /\ InitProbes

(***************************************************************************)
(* SearchService::search                                                   *)
(***************************************************************************)

\* a check with one bucket for all the names: a grant takes a cell of each
check_rate_limit_shared(limiters, engine, time) ==
  IF engine \in KnownEngines
  THEN IF GcraAllows(limiters[engine], time)
       THEN [granted |-> TRUE,
             tat |-> [f \in KnownEngines |-> GcraNext(limiters[f], time)]]
       ELSE [granted |-> FALSE, tat |-> limiters]
  ELSE [granted |-> TRUE, tat |-> limiters]

\* a check that refuses a name without a limiter
check_rate_limit_fail_closed(limiters, engine, time) ==
  IF engine \in KnownEngines
  THEN IF GcraAllows(limiters[engine], time)
       THEN [granted |-> TRUE,
             tat |-> [limiters EXCEPT ![engine] = GcraNext(@, time)]]
       ELSE [granted |-> FALSE, tat |-> limiters]
  ELSE [granted |-> FALSE, tat |-> limiters]

\* RateLimiter::check_rate_limit: the limiter of a known engine decides and
\* takes the cell in one atomic step; an unknown name is let through.
\* [granted, tat]
check_rate_limit(limiters, engine, time) ==
  IF engine \in KnownEngines
  THEN IF GcraAllows(limiters[engine], time)
       THEN [granted |-> TRUE,
             tat |-> [limiters EXCEPT ![engine] = GcraNext(@, time)]]
       ELSE [granted |-> FALSE, tat |-> limiters]
  ELSE [granted |-> TRUE, tat |-> limiters]

\* The calls with parameters r that returned less than the TTL ago
Recent(r) ==
  {d \in Calls : pc[d] = "done" /\ req[d] = r /\ now - done_at[d] < TtlMs}

\* a lookup that writes the entry it found again, with a new TTL
LookupRefreshesEntry(c, r, backendOk) ==
  /\ pc[c] = "idle"
  /\ \A d \in Calls : d < c => pc[d] # "idle"
  /\ LET cached_results == cache_get(cache, KeyTable[r], now, backendOk)
     IN /\ req' = [req EXCEPT ![c] = r]
        /\ pred' = [pred EXCEPT ![c] = Recent(r)]
        /\ IF cached_results # None
           THEN /\ pc' = [pc EXCEPT ![c] = "done"]
                /\ ret' = [ret EXCEPT ![c] = cached_results[1]]
                /\ hit' = [hit EXCEPT ![c] = TRUE]
                /\ done_at' = [done_at EXCEPT ![c] = now]
                /\ served_by' = [served_by EXCEPT ![c] = writer[KeyTable[r]]]
                /\ cache' = cache_set(cache, KeyTable[r], cached_results[1],
                                      TtlMs, now, TRUE)
           ELSE /\ pc' = [pc EXCEPT ![c] = "fanout"]
                /\ UNCHANGED << ret, hit, done_at, served_by, cache >>
  /\ UNCHANGED << clock, overflow_checks, tat, unit, contrib,
                  all_results, rl_checks, searches, writer, callers, sorting,
                  probes >>

\* The call starts: the cache key, the cache lookup, and on a hit the return.
\* backendOk = FALSE is a pool or Redis error.
Lookup(c, r, backendOk) ==
  /\ pc[c] = "idle"
  /\ \A d \in Calls : d < c => pc[d] # "idle"
  /\ LET cached_results == cache_get(cache, KeyTable[r], now, backendOk)
     IN /\ req' = [req EXCEPT ![c] = r]
        /\ pred' = [pred EXCEPT ![c] = Recent(r)]
        /\ IF cached_results # None
           THEN /\ pc' = [pc EXCEPT ![c] = "done"]
                /\ ret' = [ret EXCEPT ![c] = cached_results[1]]
                /\ hit' = [hit EXCEPT ![c] = TRUE]
                /\ done_at' = [done_at EXCEPT ![c] = now]
                /\ served_by' = [served_by EXCEPT ![c] = writer[KeyTable[r]]]
           ELSE /\ pc' = [pc EXCEPT ![c] = "fanout"]
                /\ UNCHANGED << ret, hit, done_at, served_by >>
  /\ UNCHANGED << clock, overflow_checks, tat, cache, unit, contrib,
                  all_results, rl_checks, searches, writer, callers, sorting, probes >>

\* a unit that calls engine.search whatever the limiter said
UnitStartSearchesAnyway(c, e) ==
  /\ pc[c] = "fanout"
  /\ unit[c][e] = "pending"
  /\ LET checked == check_rate_limit(tat, e, now)
     IN /\ tat' = checked.tat
        /\ rl_checks' = [rl_checks EXCEPT ![c][e] = @ + 1]
        /\ searches' = [searches EXCEPT ![c][e] = @ + 1]
        /\ unit' = [unit EXCEPT ![c][e] =
                      IF checked.granted THEN "searching" ELSE "denied"]
  /\ UNCHANGED << clock, overflow_checks, cache, pc, req, contrib, all_results,
                  ret, hit, done_at, pred, writer, served_by, callers, sorting, probes >>

\* One engine unit starts: the rate limit check and, when it passes, the
\* call of engine.search, which computes the offset and sends the request.
\* A denied unit contributes nothing and never calls the engine.
UnitStart(c, e) ==
  /\ pc[c] = "fanout"
  /\ unit[c][e] = "pending"
  /\ LET checked == check_rate_limit(tat, e, now)
         page == unwrap_or(req[c].page, 1)
     IN /\ tat' = checked.tat
        /\ rl_checks' = [rl_checks EXCEPT ![c][e] = @ + 1]
        /\ IF ~checked.granted
           THEN /\ unit' = [unit EXCEPT ![c][e] = "denied"]
                /\ UNCHANGED << pc, searches >>
           ELSE /\ searches' = [searches EXCEPT ![c][e] = @ + 1]
                /\ IF OffsetPanics(e, page, overflow_checks)
                   THEN /\ pc' = [pc EXCEPT ![c] = "panicked"]
                        /\ UNCHANGED unit
                   ELSE /\ unit' = [unit EXCEPT ![c][e] = "searching"]
                        /\ UNCHANGED pc
  /\ UNCHANGED << clock, overflow_checks, cache, req, contrib, all_results,
                  ret, hit, done_at, pred, writer, served_by, callers, sorting, probes >>

\* engine.search comes back: Ok(results) is the unit's contribution, an
\* error gives an empty one; the gather loop extends all_results with it.
UnitFinish(c, e, outcome) ==
  /\ pc[c] = "fanout"
  /\ unit[c][e] = "searching"
  /\ unit' = [unit EXCEPT ![c][e] = IF outcome.ok THEN "ok" ELSE "failed"]
  /\ contrib' = [contrib EXCEPT ![c][e] = outcome.results]
  /\ all_results' = [all_results EXCEPT ![c] = @ \o outcome.results]
  /\ UNCHANGED << clock, overflow_checks, tat, cache, pc, req, ret, hit,
                  rl_checks, searches, done_at, pred, writer, served_by,
                  callers, sorting, probes >>

UnitDone(c, e) == unit[c][e] \in {"ok", "failed", "denied"}

\* a pipeline that returns the sorted list as it is
NotDeduplicated(sorted) == sorted

\* final_results = ResultScorer::remove_duplicates(final_results), when the
\* sort has not panicked
Deduplicated(sorted) ==
  IF sorted.ok THEN Ok(remove_duplicates(sorted.vec)) ELSE Panic

\* score, heap sort and remove_duplicates of a call's all_results: [ok, vec]
Pipeline(results, query) == Deduplicated(HeapSort(score_all(results, query)))

\* an end of the call that fails when the cache write fails
CompleteOrFail(c, setOk, final_results) ==
  IF final_results.ok /\ setOk
  THEN /\ cache' = cache_set(cache, KeyTable[req[c]], final_results.vec,
                             TtlMs, now, setOk)
       /\ writer' = [writer EXCEPT ![KeyTable[req[c]]] = c]
       /\ ret' = [ret EXCEPT ![c] = final_results.vec]
       /\ pc' = [pc EXCEPT ![c] = "done"]
       /\ done_at' = [done_at EXCEPT ![c] = now]
  ELSE /\ pc' = [pc EXCEPT ![c] = "panicked"]
       /\ UNCHANGED << cache, writer, ret, done_at >>

\* The end of the call with the pipeline's outcome: the cache write and the
\* return, or the panic of the sort, which comes before both.
Complete(c, setOk, final_results) ==
  IF final_results.ok
  THEN /\ cache' = cache_set(cache, KeyTable[req[c]], final_results.vec,
                             TtlMs, now, setOk)
       /\ writer' = IF setOk THEN [writer EXCEPT ![KeyTable[req[c]]] = c]
                    ELSE writer
       /\ ret' = [ret EXCEPT ![c] = final_results.vec]
       /\ pc' = [pc EXCEPT ![c] = "done"]
       /\ done_at' = [done_at EXCEPT ![c] = now]
  ELSE /\ pc' = [pc EXCEPT ![c] = "panicked"]
       /\ UNCHANGED << cache, writer, ret, done_at >>

\* Every unit has finished: the results are scored, sorted and deduplicated,
\* written to the cache and returned.  A comparison of the sort that panics
\* ends the call before the cache write.  setOk = FALSE is a failed write.
Finish(c, setOk) ==
  /\ pc[c] = "fanout"
  /\ \A e \in Engines : UnitDone(c, e)
  /\ Complete(c, setOk, Pipeline(all_results[c], req[c].query))
  /\ UNCHANGED << clock, overflow_checks, tat, req, unit, contrib, all_results,
                  hit, rl_checks, searches, pred, served_by, callers, sorting, probes >>

\* Time passes.
TickSteps == {1000, TtlMs}

Tick(d) ==
  /\ ticks < MaxTicks
  /\ now' = now + d
  /\ ticks' = ticks + 1
  /\ UNCHANGED << tat, service, callers, sorting, probes >>

Next ==
  \/ \E c \in Calls, r \in Requests, backendOk \in BOOLEAN : Lookup(c, r, backendOk)
  \/ \E c \in Calls, e \in Engines : UnitStart(c, e)
  \/ \E c \in Calls, e \in Engines : \E o \in EngineOutcomes(e) : UnitFinish(c, e, o)
  \/ \E c \in Calls, setOk \in BOOLEAN : Finish(c, setOk)
  \/ \E d \in TickSteps : Tick(d)

Spec == Init /\ [][Next]_vars

(***************************************************************************)
(* RateLimiter::check_rate_limit called directly and concurrently for one  *)
(* engine.  limiter.check() measures the time, then loops: load the        *)
(* limiter's state, decide, and on a grant store the new state with a      *)
(* compare-and-swap that fails and retries when another caller stored in   *)
(* between.                                                                *)
(***************************************************************************)

InitRL ==
  /\ InitClock
  /\ overflow_checks = FALSE
  /\ tat = [e \in KnownEngines |-> TatAfter(0)]
  /\ InitService
  /\ InitCallers
  /\ InitSorting
  /\ InitProbes

\* the caller measures the time and loads the state
RlLoad(k) ==
  /\ rl_pc[k] = "idle"
  /\ \A j \in Callers : j < k => rl_pc[j] # "idle"
  /\ rl_pc' = [rl_pc EXCEPT ![k] = "read"]
  /\ rl_t0' = [rl_t0 EXCEPT ![k] = now]
  /\ rl_seen' = [rl_seen EXCEPT ![k] = tat[Google]]
  /\ UNCHANGED << clock, tat, service, sorting, probes >>

\* a store that does not compare: the last writer wins
RlDecideBlindStore(k) ==
  /\ rl_pc[k] = "read"
  /\ IF ~GcraAllows(rl_seen[k], rl_t0[k])
     THEN /\ rl_pc' = [rl_pc EXCEPT ![k] = "denied"]
          /\ UNCHANGED tat
     ELSE /\ tat' = [tat EXCEPT ![Google] = GcraNext(rl_seen[k], rl_t0[k])]
          /\ rl_pc' = [rl_pc EXCEPT ![k] = "granted"]
  /\ rl_seen' = [rl_seen EXCEPT ![k] = 0]
  /\ UNCHANGED << clock, rl_t0, service, sorting, probes >>

\* the caller decides on what it loaded: a denial returns; a grant stores
\* the new state if the state is still what was loaded, else takes the
\* current state and decides again
RlDecide(k) ==
  /\ rl_pc[k] = "read"
  /\ IF ~GcraAllows(rl_seen[k], rl_t0[k])
     THEN /\ rl_pc' = [rl_pc EXCEPT ![k] = "denied"]
          /\ rl_seen' = [rl_seen EXCEPT ![k] = 0]
          /\ UNCHANGED tat
     ELSE IF tat[Google] = rl_seen[k]
          THEN /\ tat' = [tat EXCEPT ![Google] = GcraNext(rl_seen[k], rl_t0[k])]
               /\ rl_pc' = [rl_pc EXCEPT ![k] = "granted"]
               /\ rl_seen' = [rl_seen EXCEPT ![k] = 0]
          ELSE /\ rl_seen' = [rl_seen EXCEPT ![k] = tat[Google]]
               /\ UNCHANGED << tat, rl_pc >>
  /\ UNCHANGED << clock, rl_t0, service, sorting, probes >>

RlTickSteps == {ReplenishMs, 1000}

NextRL ==
  \/ \E k \in Callers : RlLoad(k)
  \/ \E k \in Callers : RlDecide(k)
  \/ \E d \in RlTickSteps : Tick(d)

SpecRL == InitRL /\ [][NextRL]_vars

(***************************************************************************)
(* The sorting step alone, on every list of scored results up to a length  *)
(***************************************************************************)

RECURSIVE SeqsUpTo(_, _)
SeqsUpTo(S, n) ==
  IF n = 0 THEN {<<>>}
  ELSE LET shorter == SeqsUpTo(S, n - 1)
       IN shorter \cup {Append(s, x) : s \in shorter, x \in S}

\* the results of the model, scored for the query "rust", and one more,
\* W1, which has the score of G2 (0.00) and another title and link
Scored ==
  {[r EXCEPT !.score = ScoreTable[r, Rust]] : r \in Pool}
    \cup {[W1 EXCEPT !.score = score_result(W1, Rust)]}

InitSort ==
  /\ InitClock
  /\ overflow_checks = FALSE
  /\ tat = [e \in KnownEngines |-> TatAfter(0)]
  /\ InitService
  /\ InitCallers
  /\ sort_in \in SeqsUpTo(Scored, MaxSortLen)
  /\ sort_out = None
  /\ InitProbes

\* let mut heap = BinaryHeap::new(); for result in all_results { heap.push(result) }
\* heap.into_sorted_vec()
Sort ==
  /\ sort_out = None
  /\ sort_out' = Some(HeapSort(sort_in))
  /\ UNCHANGED << clock, tat, service, callers, sort_in, probes >>

NextSort == Sort

SpecSort == InitSort /\ [][NextSort]_vars

(***************************************************************************)
(* ResultScorer::remove_duplicates alone, on every list of results up to a *)
(* length, applied again to its own output                                 *)
(***************************************************************************)

InitDedup ==
  /\ InitClock
  /\ overflow_checks = FALSE
  /\ tat = [e \in KnownEngines |-> TatAfter(0)]
  /\ InitService
  /\ InitCallers
  /\ InitSorting
  /\ dedup_in \in SeqsUpTo(DedupPool, MaxDedupLen)
  /\ dedup_out = <<>>
  /\ key_in = << ReqRust, ReqRust >> /\ key_out = None /\ ac_out = None
  /\ last_check = None
  /\ InitAutocomplete
  /\ score_in = None /\ score_out = None
  /\ main_pc = "serving" /\ flushes = 1

\* ResultScorer::remove_duplicates(results), on the input at first and on
\* the output of the pass before afterwards
Dedup ==
  /\ Len(dedup_out) < MaxPasses
  /\ dedup_out' = Append(dedup_out,
                         remove_duplicates(IF dedup_out = <<>> THEN dedup_in
                                           ELSE dedup_out[Len(dedup_out)]))
  /\ UNCHANGED << clock, score_in, score_out, main_pc, flushes,
                  tat, service, callers, sorting, dedup_in, keying,
                  last_check, ac_cache, ac_call >>

NextDedup == Dedup

SpecDedup == InitDedup /\ [][NextDedup]_vars

(***************************************************************************)
(* RateLimiter::check_rate_limit called by name, one call after another,   *)
(* with the names of the limiters and names that have none                 *)
(***************************************************************************)

\* HashMap::get compares the whole name, case included
CheckNames == KnownEngines \cup {"Bing", "google"}

InitCheck ==
  /\ InitClock
  /\ overflow_checks = FALSE
  /\ tat \in [KnownEngines -> {TatAfter(k) : k \in PriorCells}]
  /\ InitService
  /\ InitCallers
  /\ InitSorting
  /\ InitProbes

\* the number of calls made so far
ChecksMade == IF last_check = None THEN 0 ELSE last_check[1].n

\* self.check_rate_limit(name).await
CheckByName(name) ==
  /\ ChecksMade < MaxChecks
  /\ LET checked == check_rate_limit(tat, name, now)
     IN /\ tat' = checked.tat
        /\ last_check' = Some([engine |-> name, granted |-> checked.granted,
                               before |-> tat, n |-> ChecksMade + 1])
  /\ UNCHANGED << clock, score_in, score_out, main_pc, flushes,
                  service, callers, sorting, deduping, keying,
                  ac_cache, ac_call >>

NextCheck ==
  \/ \E name \in CheckNames : CheckByName(name)
  \/ \E d \in RlTickSteps : Tick(d)

SpecCheck == InitCheck /\ [][NextCheck]_vars

(***************************************************************************)
(* SearchService::autocomplete                                             *)
(***************************************************************************)

\* a start that takes a cell of Google's limiter before the upstream request
AcStartRateLimited(c, q, backendOk) ==
  /\ ac_call[c].pc = "idle"
  /\ \A d \in 1..(c - 1) : ac_call[d].pc # "idle"
  /\ LET cached_results == IF backendOk THEN RedisGet(ac_cache, q, now)
                           ELSE None
     IN /\ ac_call' = [ac_call EXCEPT ![c] =
                         IF cached_results # None
                         THEN [@ EXCEPT !.pc = "done", !.query = q,
                                        !.hit = TRUE,
                                        !.ret = cached_results[1]]
                         ELSE [@ EXCEPT !.pc = "upstream", !.query = q,
                                        !.requests = @ + 1]]
        /\ tat' = IF cached_results # None THEN tat
                  ELSE check_rate_limit(tat, Google, now).tat
  /\ UNCHANGED << clock, score_in, score_out, main_pc, flushes,
                  service, callers, sorting, deduping, keying,
                  last_check, ac_cache >>

\* The call starts: the cache lookup, on a hit the return, on a miss the
\* request to the suggestion upstream.  The payload of a key is a
\* Vec<String> that serde_json wrote, which it reads back as it was.
AcStart(c, q, backendOk) ==
  /\ ac_call[c].pc = "idle"
  /\ \A d \in 1..(c - 1) : ac_call[d].pc # "idle"
  /\ LET cached_results == IF backendOk THEN RedisGet(ac_cache, q, now)
                           ELSE None
     IN ac_call' = [ac_call EXCEPT ![c] =
                      IF cached_results # None
                      THEN [@ EXCEPT !.pc = "done", !.query = q, !.hit = TRUE,
                                     !.ret = cached_results[1]]
                      ELSE [@ EXCEPT !.pc = "upstream", !.query = q,
                                     !.requests = @ + 1]]
  /\ UNCHANGED << clock, score_in, score_out, main_pc, flushes,
                  tat, service, callers, sorting, deduping, keying,
                  last_check, ac_cache >>

\* a finish that caches the empty Vec of a failed request too
AcFinishCachesFailures(c, outcome, setOk) ==
  /\ ac_call[c].pc = "upstream"
  /\ ac_call' = [ac_call EXCEPT ![c] =
                   [@ EXCEPT !.pc = "done", !.outcome = Some(outcome),
                             !.ret = IF outcome.ok
                                     THEN suggestions(outcome.body)
                                     ELSE <<>>]]
  /\ ac_cache' = IF setOk
                 THEN [ac_cache EXCEPT ![ac_call[c].query] =
                         Some([payload |-> IF outcome.ok
                                           THEN suggestions(outcome.body)
                                           ELSE <<>>,
                               expires |-> now + TtlMs])]
                 ELSE ac_cache
  /\ UNCHANGED << clock, score_in, score_out, main_pc, flushes,
                  tat, service, callers, sorting, deduping, keying,
                  last_check >>

\* The upstream comes back.  An error of the request or of the body returns
\* an empty Vec at once; a body gives its suggestions, which are written to
\* the cache (setOk = FALSE: the write fails and is ignored) and returned.
AcFinish(c, outcome, setOk) ==
  /\ ac_call[c].pc = "upstream"
  /\ IF outcome.ok
     THEN /\ ac_call' = [ac_call EXCEPT ![c] =
                           [@ EXCEPT !.pc = "done", !.outcome = Some(outcome),
                                     !.ret = suggestions(outcome.body)]]
          /\ ac_cache' = IF setOk
                         THEN [ac_cache EXCEPT ![ac_call[c].query] =
                                 Some([payload |-> suggestions(outcome.body),
                                       expires |-> now + TtlMs])]
                         ELSE ac_cache
     ELSE /\ ac_call' = [ac_call EXCEPT ![c] =
                           [@ EXCEPT !.pc = "done", !.outcome = Some(outcome),
                                     !.ret = <<>>]]
          /\ UNCHANGED ac_cache
  /\ UNCHANGED << clock, score_in, score_out, main_pc, flushes,
                  tat, service, callers, sorting, deduping, keying,
                  last_check >>

NextAC ==
  \/ \E c \in 1..MaxAcCalls, q \in AcQueries, backendOk \in BOOLEAN :
        AcStart(c, q, backendOk)
  \/ \E c \in 1..MaxAcCalls, o \in UpstreamOutcomes, setOk \in BOOLEAN :
        AcFinish(c, o, setOk)
  \/ \E d \in TickSteps : Tick(d)

SpecAC == InitCheck /\ [][NextAC]_vars

(***************************************************************************)
(* main: the start of the process.  Redis holds entries that an earlier    *)
(* deployment wrote; the handlers run only once axum::serve is reached.    *)
(***************************************************************************)

InitMain ==
  /\ InitClock
  /\ overflow_checks \in BOOLEAN
  /\ tat = [e \in KnownEngines |-> TatAfter(0)]
  /\ cache = [k \in CacheKeys |->
               Some([payload |-> to_json(<< G2 >>), expires |-> TtlMs])]
  /\ pc = [c \in Calls |-> "idle"]
  /\ req = [c \in Calls |-> ReqRust]
  /\ unit = [c \in Calls |-> [e \in Engines |-> "pending"]]
  /\ contrib = [c \in Calls |-> [e \in Engines |-> <<>>]]
  /\ all_results = [c \in Calls |-> <<>>]
  /\ ret = [c \in Calls |-> <<>>]
  /\ hit = [c \in Calls |-> FALSE]
  /\ rl_checks = [c \in Calls |-> [e \in Engines |-> 0]]
  /\ searches = [c \in Calls |-> [e \in Engines |-> 0]]
  /\ done_at = [c \in Calls |-> 0]
  /\ pred = [c \in Calls |-> {}]
  /\ writer = [k \in CacheKeys |-> 0]
  /\ served_by = [c \in Calls |-> 0]
  /\ InitCallers
  /\ InitSorting
  /\ InitDeduping
  /\ key_in = << ReqRust, ReqRust >> /\ key_out = None /\ ac_out = None
  /\ last_check = None
  /\ ac_cache = [q \in AcQueries |->
                  Some([payload |-> << <<"o", "l", "d">> >>,
                        expires |-> TtlMs])]
  /\ ac_call = [c \in 1..MaxAcCalls |->
                  [pc |-> "idle", query |-> <<>>, outcome |-> None,
                   ret |-> <<>>, hit |-> FALSE, requests |-> 0]]
  /\ score_in = None /\ score_out = None
  /\ main_pc = "env" /\ flushes = 0

\* a start that goes on to bind without sending FLUSHDB
MainWithoutFlush(outcome) ==
  /\ main_pc \in {"env", "connect", "flush", "bind"}
  /\ main_pc' =
       CASE main_pc = "env" ->
              IF outcome = "ok" THEN "connect" ELSE "no_redis_url"
         [] main_pc = "connect" ->
              IF outcome = "ok" THEN "flush" ELSE "connect_failed"
         [] main_pc = "flush" -> "bind"
         [] main_pc = "bind" ->
              IF outcome = "ok" THEN "serving" ELSE "bind_failed"
  /\ UNCHANGED << clock, tat, service, callers, sorting, deduping, keying,
                  last_check, ac_cache, ac_call, score_in, score_out,
                  flushes >>

\* One step of main.  outcome is what the step's call comes back with: "ok",
\* "connection" (no connection to Redis) or "other".
\*   env:     std::env::var("REDIS_URL").expect(..) panics when it is unset
\*   connect: RedisCache::new; on Err main prints and returns
\*   flush:   cache.flush().await.unwrap(): FLUSHDB empties the database;
\*            an Err of pool.get() or of the command panics
\*   bind:    TcpListener::bind(..).await.unwrap(), then axum::serve
Main(outcome) ==
  /\ main_pc \in {"env", "connect", "flush", "bind"}
  /\ main_pc = "env" => outcome \in {"ok", "other"}
  /\ main_pc = "bind" => outcome \in {"ok", "other"}
  /\ main_pc' =
       CASE main_pc = "env" ->
              IF outcome = "ok" THEN "connect" ELSE "no_redis_url"
         [] main_pc = "connect" ->
              IF outcome = "ok" THEN "flush" ELSE "connect_failed"
         [] main_pc = "flush" ->
              IF outcome = "ok" THEN "bind"
              ELSE IF outcome = "connection" THEN "flush_no_connection"
              ELSE "flush_command_failed"
         [] main_pc = "bind" ->
              IF outcome = "ok" THEN "serving" ELSE "bind_failed"
  /\ IF main_pc = "flush" /\ outcome = "ok"
     THEN /\ cache' = [k \in CacheKeys |-> None]
          /\ ac_cache' = [q \in AcQueries |-> None]
          /\ flushes' = flushes + 1
     ELSE UNCHANGED << cache, ac_cache, flushes >>
  /\ UNCHANGED << clock, overflow_checks, tat, pc, req, unit, contrib,
                  all_results, ret, hit, rl_checks, searches, done_at, pred,
                  writer, served_by, callers, sorting, deduping, keying,
                  last_check, ac_call, score_in, score_out >>

\* main, and under axum::serve the handlers: a search call up to its cache
\* lookup, and the autocomplete calls
NextMain ==
  \/ \E outcome \in {"ok", "connection", "other"} : Main(outcome)
  \/ /\ main_pc = "serving"
     /\ \E r \in Requests, backendOk \in BOOLEAN : Lookup(1, r, backendOk)
  \/ /\ main_pc = "serving"
     /\ \E c \in 1..MaxAcCalls, q \in AcQueries, backendOk \in BOOLEAN :
          AcStart(c, q, backendOk)
  \/ /\ main_pc = "serving"
     /\ \E c \in 1..MaxAcCalls, o \in UpstreamOutcomes, setOk \in BOOLEAN :
          AcFinish(c, o, setOk)

SpecMain == InitMain /\ [][NextMain]_vars

(***************************************************************************)
(* The cache keys alone, built for every pair of requests                  *)
(***************************************************************************)

InitKey ==
  /\ InitClock
  /\ overflow_checks = FALSE
  /\ tat = [e \in KnownEngines |-> TatAfter(0)]
  /\ InitService
  /\ InitCallers
  /\ InitSorting
  /\ InitDeduping
  /\ key_in \in KeyRequests \X KeyRequests
  /\ key_out = None
  /\ ac_out = None
  /\ last_check = None
  /\ InitAutocomplete
  /\ score_in = None /\ score_out = None
  /\ main_pc = "serving" /\ flushes = 1

\* let cache_key = format!("search:...", ...) in SearchService::search
SearchKey ==
  /\ key_out = None
  /\ key_out' = Some(<< cache_key(key_in[1]), cache_key(key_in[2]) >>)
  /\ UNCHANGED << clock, score_in, score_out, main_pc, flushes,
                  tat, service, callers, sorting, deduping, key_in,
                  ac_out, last_check, ac_cache, ac_call >>

\* let cache_key = format!("autocomplete:{}", query) in
\* SearchService::autocomplete
AutocompleteKey ==
  /\ ac_out = None
  /\ ac_out' = Some(<< autocomplete_key(key_in[1].query),
                       autocomplete_key(key_in[2].query) >>)
  /\ UNCHANGED << clock, score_in, score_out, main_pc, flushes,
                  tat, service, callers, sorting, deduping, key_in,
                  key_out, last_check, ac_cache, ac_call >>

NextKey == SearchKey \/ AutocompleteKey

SpecKey == InitKey /\ [][NextKey]_vars

(***************************************************************************)
(* ResultScorer::score_result alone, on every result for two queries that  *)
(* differ in the case of their letters at most                             *)
(***************************************************************************)

InitScore ==
  /\ InitClock
  /\ overflow_checks = FALSE
  /\ tat = [e \in KnownEngines |-> TatAfter(0)]
  /\ InitService
  /\ InitCallers
  /\ InitSorting
  /\ InitDeduping
  /\ key_in = << ReqRust, ReqRust >> /\ key_out = None /\ ac_out = None
  /\ last_check = None
  /\ InitAutocomplete
  /\ main_pc = "serving" /\ flushes = 1
  /\ score_in \in
       {[result |-> r, queries |-> << q1, q2 >>] :
          r \in DedupPool,
          q1 \in {<<>>, Rust, <<"r">>, <<"s">>},
          q2 \in {<<>>, Rust, <<"R", "u", "s", "t">>, <<"R", "u", "S", "t">>,
                  <<"r">>, <<"R">>, <<"s">>, <<"S">>}}
  /\ to_lowercase(score_in.queries[1]) = to_lowercase(score_in.queries[2])
  /\ score_out = None

\* ResultScorer::score_result(&result, query), for the one and for the other
\* query
Score ==
  /\ score_out = None
  /\ score_out' = Some(<< score_result(score_in.result, score_in.queries[1]),
                          score_result(score_in.result, score_in.queries[2]) >>)
  /\ UNCHANGED << clock, tat, service, callers, sorting, deduping, keying,
                  last_check, ac_cache, ac_call, score_in, main_pc,
                  flushes >>

SpecScore == InitScore /\ [][Score]_vars

(***************************************************************************)
(* Properties                                                              *)
(***************************************************************************)

NoSearches(c) == \A e \in Engines : searches[c][e] = 0

Returned(c) == pc[c] = "done"

Missed(c) == pc[c] = "done" /\ ~hit[c]

\* C1, as stated: of two calls with identical parameters, the second made
\* less than the TTL after the first returned, the second returns the list
\* the first returned and makes no engine request.
C1_SecondCallIdentical ==
  \A c \in Calls : \A d \in pred[c] :
     Returned(c) => ret[c] = ret[d] /\ NoSearches(c)

\* C1, amended: a call that finds an entry under its key returns the list
\* the call that wrote the entry returned, less than the TTL after that
\* call returned, and makes no engine request.
C1_HitReturnsWrittenList ==
  \A c \in Calls :
     hit[c] =>
       /\ served_by[c] \in Calls \ {c}
       /\ KeyTable[req[served_by[c]]] = KeyTable[req[c]]
       /\ ret[c] = ret[served_by[c]]
       /\ done_at[c] - done_at[served_by[c]] < TtlMs
       /\ NoSearches(c)

C1_Witness ==
  \E c \in Calls :
     /\ hit[c]
     /\ served_by[c] \in pred[c]
     /\ Len(ret[c]) >= 2
     /\ done_at[c] > done_at[served_by[c]]

\* C2: no search call panics.
C2_NeverPanics == \A c \in Calls : pc[c] # "panicked"

\* C3: when one engine's search failed and the other returned results, the
\* call returns, and what it returns is the scored, sorted and deduplicated
\* results of the engine that succeeded.
C3_FailureIsolated ==
  \A c \in Calls : \A e \in Engines, f \in Engines :
     ( /\ pc[c] # "fanout"
       /\ unit[c][e] = "failed"
       /\ unit[c][f] = "ok"
       /\ contrib[c][f] # <<>> )
     => /\ Returned(c)
        /\ contrib[c][e] = <<>>
        /\ ret[c] = Pipeline(contrib[c][f], req[c].query).vec

\* C4: what a cache miss returns and caches is what the pipeline gives for
\* the contributions taken in one fixed order of the engines, whatever the
\* order the units finished in.
C4_CompletionOrderIrrelevant ==
  \A c \in Calls :
     Missed(c) =>
       ret[c] = Pipeline(contrib[c][Google] \o contrib[c][DuckDuckGo],
                         req[c].query).vec

\* C5: a call consults the limiter at most once per engine, and exactly
\* once per engine when it returns from a cache miss; a denied unit never
\* invokes the engine and contributes nothing; a granted unit invokes the
\* engine exactly once.
C5_OneCheckPerEngine ==
  \A c \in Calls : \A e \in Engines :
     /\ rl_checks[c][e] <= 1
     /\ Missed(c) => rl_checks[c][e] = 1
     /\ unit[c][e] = "denied" => searches[c][e] = 0 /\ contrib[c][e] = <<>>
     /\ unit[c][e] \in {"searching", "ok", "failed"} => searches[c][e] = 1
     /\ unit[c][e] = "pending" => searches[c][e] = rl_checks[c][e]

C5_Witness ==
  \E c \in Calls :
     /\ Missed(c)
     /\ unit[c][Google] = "denied"
     /\ unit[c][DuckDuckGo] = "ok"
     /\ ret[c] # <<>>

GrantedAt(t) == {k \in Callers : rl_pc[k] = "granted" /\ rl_t0[k] = t}

GrantedSince(t) == {k \in Callers : rl_pc[k] = "granted" /\ rl_t0[k] > t}

\* the calls let through so far all measured a time no later than caller k
NotOvertaken(k) ==
  \A j \in Callers : rl_pc[j] = "granted" => rl_t0[j] <= rl_t0[k]

\* C6: from a full bucket, no more than Burst calls are let through at time
\* 0, and a call that follows the calls let through is refused only when
\* Burst of them were let through within the second before it: the first
\* five calls pass, the sixth does not, and a call one second later passes.
C6_FivePassSixthRefused ==
  /\ Cardinality(GrantedAt(0)) <= Burst
  /\ \A k \in Callers :
        rl_pc[k] = "denied" /\ NotOvertaken(k) =>
          Cardinality(GrantedSince(rl_t0[k] - 1000)) >= Burst

C6_Witness ==
  /\ Cardinality(GrantedAt(0)) = Burst
  /\ \E k \in Callers : rl_pc[k] = "denied" /\ rl_t0[k] = 0
  /\ \E k \in Callers : rl_pc[k] = "granted" /\ rl_t0[k] = 1000

\* C7: under every interleaving of the callers, every grant has taken a
\* cell of its own (the limiter's state has advanced by one interval per
\* grant), no more than Burst callers that measured the same time are let
\* through, and the cells available stay within 0..Burst.
C7_NoCellGrantedTwice ==
  /\ Cardinality({k \in Callers : rl_pc[k] = "granted"}) * ReplenishMs <= tat[Google]
  /\ \A k \in Callers : Cardinality(GrantedAt(rl_t0[k])) <= Burst
  /\ TokensAt(tat[Google], now) \in 0..Burst
  /\ tat[Google] <= now + Burst * ReplenishMs

C7_Witness ==
  /\ Cardinality(GrantedAt(0)) = Burst
  /\ \E k \in Callers : rl_pc[k] = "denied"
  /\ \E k \in Callers : rl_pc[k] = "read" /\ rl_seen[k] # tat[Google]
                        /\ GcraAllows(rl_seen[k], rl_t0[k])

\* C8: a call whose engine units have all finished returns: it does not end
\* any other way.
C8_ReturnsOnceUnitsFinished ==
  \A c \in Calls :
     (pc[c] # "fanout" /\ \A e \in Engines : UnitDone(c, e)) => Returned(c)

Reorderings(s) ==
  {[i \in 1..Len(s) |-> s[p[i]]] :
     p \in {q \in [1..Len(s) -> 1..Len(s)] :
              \A i \in 1..Len(s), j \in 1..Len(s) : q[i] = q[j] => i = j}}

\* C9: the sorting step gives the same output for every permutation of its
\* input.
C9_SortIgnoresInputOrder ==
  sort_out # None =>
    \A p \in Reorderings(sort_in) : HeapSort(p) = sort_out[1]

\* a comes before b: the higher score, then the lower title, then the lower link
Before(a, b) ==
  \/ FCmp(a.score, b.score) > 0
  \/ /\ FCmp(a.score, b.score) = 0
     /\ \/ StrCmp(a.title, b.title) < 0
        \/ StrCmp(a.title, b.title) = 0 /\ StrCmp(a.link, b.link) <= 0

FirstPass == dedup_out[1]

\* C11: remove_duplicates is idempotent: applied to its own output, it
\* returns that output unchanged, for every input sequence.
C11_Idempotent ==
  \A i \in 2..Len(dedup_out) : dedup_out[i] = FirstPass

\* a second pass ran on an output that had lost a result and kept two
C11_Witness ==
  /\ Len(dedup_out) = 2
  /\ Len(dedup_in) = 3
  /\ Len(FirstPass) = 2

\* A link with its scheme, a "www." prefix, a trailing slash and the case of
\* its letters ignored
LinkKey(link) ==
  LET lower == to_lowercase(link)
      http == <<"h", "t", "t", "p", ":", "/", "/">>
      httpS == <<"h", "t", "t", "p", "s", ":", "/", "/">>
      rest == IF starts_with(lower, http)
              THEN SubSeq(lower, Len(http) + 1, Len(lower))
              ELSE IF starts_with(lower, httpS)
              THEN SubSeq(lower, Len(httpS) + 1, Len(lower))
              ELSE lower
      bare == IF starts_with(rest, www)
              THEN SubSeq(rest, Len(www) + 1, Len(rest)) ELSE rest
  IN IF bare # <<>> /\ bare[Len(bare)] = "/"
     THEN SubSeq(bare, 1, Len(bare) - 1) ELSE bare

LinkKeys == [r \in DedupPool |-> LinkKey(r.link)]

\* C12: of the results whose links are equal when scheme, "www." prefix,
\* trailing slash and letter case are ignored, remove_duplicates keeps the
\* first and drops the later ones; the formula is the conclusion the claim
\* draws from it: no two entries of the output have such equal links.
C12_OneEntryPerLink ==
  dedup_out # <<>> =>
    \A i, j \in 1..Len(FirstPass) :
      LinkKeys[FirstPass[i]] = LinkKeys[FirstPass[j]] => i = j

\* out is input with some results left out: the strictly increasing maps
\* of the positions of out to the positions of input that carry equal results
Embeddings(out, input) ==
  {f \in [1..Len(out) -> 1..Len(input)] :
     /\ \A k \in 1..Len(out) : out[k] = input[f[k]]
     /\ \A k, l \in 1..Len(out) : k < l => f[k] < f[l]}

\* every result of input that f leaves out is a duplicate of a result that
\* f keeps from an earlier position
DroppedFollowKept(out, input, f) ==
  \A i \in 1..Len(input) :
    (\A k \in 1..Len(out) : f[k] # i) =>
      \E k \in 1..Len(out) : f[k] < i /\ IsDup(input[i], out[k])

NoMutualDuplicates(out) ==
  \A k, l \in 1..Len(out) : k # l => ~IsDup(out[k], out[l])

RECURSIVE Join(_)
Join(parts) ==
  IF Len(parts) = 1 THEN parts[1]
  ELSE parts[1] \o <<":">> \o Join(Tail(parts))

\* an optional value as its own text, nothing when it is absent
OwnText(o) == IF o = None THEN <<>> ELSE o[1]

\* a text between quotes, a backslash put before each quote and backslash
RECURSIVE Quoted(_, _)
Quoted(text, i) ==
  IF i > Len(text) THEN <<"\"">>
  ELSE (IF text[i] = "\"" THEN <<"\\", "\"">>
        ELSE IF text[i] = "\\" THEN <<"\\", "\\">>
        ELSE <<text[i]>>) \o Quoted(text, i + 1)

\* an optional value as Rust prints it for debugging
DebugText(o) ==
  IF o = None THEN <<"N", "o", "n", "e">>
  ELSE <<"S", "o", "m", "e", "(">> \o <<"\"">> \o Quoted(o[1], 1) \o <<")">>

PageText(o) == IF o = None \/ o = Some(1) THEN <<"1">> ELSE <<"2">>

\* "search:{query}:{page}:{dateRange}:{region}:{language}", the optional
\* values written by text
Template(r, text(_)) ==
  Join(<< <<"s", "e", "a", "r", "c", "h">>, r.query, PageText(r.page),
          text(r.date_range), text(r.region), text(r.language) >>)

AutocompleteTemplate(r) ==
  Join(<< <<"a", "u", "t", "o", "c", "o", "m", "p", "l", "e", "t", "e">>,
          r.query >>)

KeysBuilt == key_out # None /\ ac_out # None

\* C14 as stated: the search key is the template filled with the call's
\* values, each optional parameter appearing as its own text value, and the
\* autocomplete key is "autocomplete:{query}".
C14_KeyIsTemplateOfOwnText ==
  KeysBuilt =>
    \A i \in 1..2 :
      /\ key_out[1][i] = Template(key_in[i], OwnText)
      /\ ac_out[1][i] = AutocompleteTemplate(key_in[i])

\* C14 amended: the search key is the template filled with the query as it
\* is, the page in decimal (1 when absent) and each optional parameter in
\* Rust's debug form, None when absent and Some("value") when present, with
\* quotes and backslashes of the value escaped; the autocomplete key is
\* "autocomplete:{query}".
C14_KeyIsTemplateOfDebugText ==
  KeysBuilt =>
    \A i \in 1..2 :
      /\ key_out[1][i] = Template(key_in[i], DebugText)
      /\ ac_out[1][i] = AutocompleteTemplate(key_in[i])

\* keys built for a request without a page and with a quote in an option
C14_Witness ==
  /\ KeysBuilt
  /\ key_in[1].page = None
  /\ key_in[1].language = Some(<<"\"">>)
  /\ key_in[1].date_range = None
  /\ key_in[1].region # None

\* (query, page-or-1, dateRange, region, language)
KeyTuple(r) ==
  << r.query, IF r.page = None THEN 1 ELSE r.page[1], r.date_range, r.region,
     r.language >>

\* C15: the search cache key is a deterministic, collision-free function
\* of (query, page-or-1, dateRange, region, language): equal tuples give
\* equal keys, tuples that differ in a component give different keys.
C15_KeyIsInjectiveOnTuple ==
  key_out # None =>
    (KeyTuple(key_in[1]) = KeyTuple(key_in[2])
       <=> key_out[1][1] = key_out[1][2])

\* an absent page and page 1 gave one key; a ":" in the query is present
C15_Witness ==
  /\ key_out # None
  /\ key_in[1].page = None
  /\ key_in[2].page = Some(1)
  /\ key_in[1].query = <<"r", ":", "1">>
  /\ key_out[1][1] = key_out[1][2]

(***************************************************************************)
(* The cache in SearchService::search                                      *)
(***************************************************************************)

\* the key of call c
KeyOf(c) == KeyTable[req[c]]

\* the key holds, at the present time, a list that reads back
HoldsList(store, key) ==
  /\ store[key] # None
  /\ now < store[key][1].expires
  /\ \A i \in 1..Len(store[key][1].payload) :
        store[key][1].payload[i].score # JsonNull

\* the list a payload stands for
Decoded(payload) ==
  [i \in 1..Len(payload) |-> [payload[i] EXCEPT !.score = @[1]]]

Started(c) == pc[c] = "idle" /\ pc'[c] # "idle"

\* C16: the cache get never fails; on a missing key, on a payload that does
\* not deserialize and on a pool or backend error it gives none, and search
\* then goes on to the engine fan-out.  A starting call has two outcomes:
\* it returns from the cache, and then its key held a live list that reads
\* back, or it is in the fan-out.
C16_GetFailureIsMiss ==
  [][\A c \in Calls :
       Started(c) =>
         \/ pc'[c] = "fanout" /\ ~hit'[c]
         \/ /\ pc'[c] = "done"
            /\ hit'[c]
            /\ HoldsList(cache, KeyOf(c)')]_vars

\* a call went to the engines although its key held a live list that reads
\* back (a backend error), after a call whose key held nothing
C16_Witness ==
  /\ \E c \in Calls : \E d \in pred[c] :
        /\ Missed(c) /\ ~NoSearches(c)
        /\ writer[KeyOf(c)] = d
        /\ from_json(to_json(ret[d])) # None
  /\ \E c \in Calls : Missed(c) /\ pred[c] = {} /\ ~NoSearches(c)

\* what the end of call c leaves, for the list the pipeline gave: the list
\* is returned, and the cache holds it under the key when the write
\* succeeded and is what it was when the write failed
EndsWith(c, final_results) ==
  IF final_results.ok
  THEN /\ pc'[c] = "done"
       /\ ret'[c] = final_results.vec
       /\ IF writer'[KeyOf(c)] = c
          THEN cache' = [cache EXCEPT ![KeyOf(c)] =
                           Some([payload |-> to_json(final_results.vec),
                                 expires |-> now + TtlMs])]
          ELSE cache' = cache /\ writer' = writer
  ELSE pc'[c] = "panicked" /\ cache' = cache

Ended(c) ==
  /\ pc[c] = "fanout"
  /\ \A e \in Engines : UnitDone(c, e)
  /\ pc'[c] # "fanout"

\* C17: when the cache write at the end of a miss fails, search returns
\* the list it would return had the write succeeded, and the cache is left
\* as it was.
C17_FailedWriteIsNoOp ==
  [][\A c \in Calls :
       Ended(c) => EndsWith(c, Pipeline(all_results[c], req[c].query))]_vars

\* a call returned a list of two and its write failed: nothing is under its
\* key and no call wrote it
C17_Witness ==
  \E c \in Calls :
    /\ Missed(c)
    /\ Len(ret[c]) = 2
    /\ writer[KeyOf(c)] = 0
    /\ cache[KeyOf(c)] = None

\* C18: after a miss whose cache write succeeded, the cache holds under
\* the key the list that search returned, for 300 seconds: until then a
\* get gives that list, from then on it gives nothing, and a call served
\* from the entry was served before the TTL had elapsed.
C18_CacheHoldsReturnedList ==
  \A c \in Calls :
    (Missed(c) /\ writer[KeyOf(c)] = c) =>
      /\ cache_get(cache, KeyOf(c), now, TRUE) =
           (IF now < done_at[c] + TtlSecs * 1000 THEN Some(ret[c]) ELSE None)
      /\ \A d \in Calls :
           (hit[d] /\ served_by[d] = c) => done_at[d] < done_at[c] + TtlMs

\* C19: a cache hit is terminal: the call returns the cached list as it is
\* stored, takes no cell of a rate limiter, invokes no engine and writes
\* nothing to the cache (the expiry of the entry stays), and nothing of the
\* call changes afterwards.
C19_HitIsTerminal ==
  [][\A c \in Calls :
       /\ (~hit[c] /\ hit'[c]) =>
            /\ pc'[c] = "done"
            /\ HoldsList(cache, KeyOf(c)')
            /\ ret'[c] = Decoded(cache[KeyOf(c)'][1].payload)
            /\ cache' = cache /\ writer' = writer
            /\ tat' = tat
            /\ \A e \in Engines :
                 /\ rl_checks'[c][e] = 0 /\ searches'[c][e] = 0
                 /\ unit'[c][e] = "pending"
       /\ hit[c] =>
            /\ pc'[c] = "done" /\ hit'[c]
            /\ ret'[c] = ret[c]
            /\ rl_checks'[c] = rl_checks[c] /\ searches'[c] = searches[c]
            /\ unit'[c] = unit[c]]_vars

\* a hit a second after the entry was written: the entry still expires 300
\* seconds after it was written
C19_Witness ==
  \E c \in Calls :
    /\ hit[c]
    /\ ret[c] # <<>>
    /\ cache[KeyOf(c)] # None
    /\ cache[KeyOf(c)][1].expires < done_at[c] + TtlMs

(***************************************************************************)
(* Names without a limiter                                                 *)
(***************************************************************************)

\* C20: check_rate_limit returns true for an engine name that has no
\* configured bucket, on every call and after any number of earlier calls,
\* and the call changes the state of no bucket.
C20_UnknownNameAllowed ==
  (last_check # None /\ last_check[1].engine \notin KnownEngines) =>
    /\ last_check[1].granted
    /\ tat = last_check[1].before

\* a name without a limiter passed as the fourth call, at a time when
\* every limiter refuses
C20_Witness ==
  /\ last_check # None
  /\ last_check[1].engine = "google"
  /\ last_check[1].granted
  /\ last_check[1].n >= 4
  /\ \A e \in KnownEngines : ~GcraAllows(tat[e], now)

(***************************************************************************)
(* Autocomplete                                                            *)
(***************************************************************************)

\* line l of a body holds a list of suggestions
HasList(body, l) ==
  /\ body[l].bracket
  /\ body[l].json # None
  /\ body[l].json[1].kind = "arr"
  /\ body[l].json[1].items # <<>>
  /\ body[l].json[1].items[1].kind = "arr"

ListOf(body, l) == body[l].json[1].items[1].items

\* the places <<line, item>> of a body where a suggestion stands: the item
\* is an array that begins with a string
Places(body) ==
  {<<l, k>> \in (1..Len(body)) \X (1..4) :
     /\ HasList(body, l)
     /\ k <= Len(ListOf(body, l))
     /\ ListOf(body, l)[k].kind = "arr"
     /\ ListOf(body, l)[k].items # <<>>
     /\ ListOf(body, l)[k].items[1].kind = "str"}

Earlier(x, y) == x[1] < y[1] \/ (x[1] = y[1] /\ x[2] < y[2])

\* the suggestions of a body in the order of the response
InResponseOrder(body) ==
  [n \in 1..Cardinality(Places(body)) |->
     LET x == CHOOSE x \in Places(body) :
                Cardinality({y \in Places(body) : Earlier(y, x)}) = n - 1
     IN ListOf(body, x[1])[x[2]].items[1].text]

AcStepOf(before, after) ==
  /\ (before.pc = "idle" /\ after.pc # "idle") =>
       IF after.hit
       THEN /\ after.pc = "done"
            /\ after.requests = 0
            /\ ac_cache[after.query] # None
            /\ now < ac_cache[after.query][1].expires
            /\ after.ret = ac_cache[after.query][1].payload
            /\ ac_cache' = ac_cache
       ELSE after.pc = "upstream" /\ after.requests = 1
  /\ (before.pc = "upstream" /\ after.pc # "upstream") =>
       /\ after.pc = "done"
       /\ after.requests = 1
       /\ after.outcome[1].ok =>
            /\ after.ret = InResponseOrder(after.outcome[1].body)
            /\ \/ ac_cache' = ac_cache
               \/ ac_cache' = [ac_cache EXCEPT ![after.query] =
                                 Some([payload |-> after.ret,
                                       expires |-> now + TtlSecs * 1000])]
  /\ before.pc = "done" => after = before

\* C22: an autocomplete call takes no cell of a rate limiter and touches
\* nothing of the search pipeline; on a hit under its query's key it returns
\* the cached sequence and sends no upstream request; on a miss it sends
\* one upstream request and, of the response, returns the suggestions in
\* the order of the response and writes them to the cache.
C22_AutocompleteIndependent ==
  [][/\ tat' = tat
     /\ service' = service
     /\ \A c \in 1..MaxAcCalls : AcStepOf(ac_call[c], ac_call'[c])]_vars

\* a miss that returned three suggestions taken from two lines, and a hit
\* that returned them from the cache
C22_Witness ==
  \E c, d \in 1..MaxAcCalls :
    /\ ac_call[c].pc = "done" /\ ~ac_call[c].hit
    /\ ac_call[c].requests = 1
    /\ ac_call[c].ret = << <<"r", "u", "s">>, <<"r", "u">>, <<"r">> >>
    /\ ac_call[d].hit
    /\ ac_call[d].requests = 0
    /\ ac_call[d].ret = ac_call[c].ret

(***************************************************************************)
(* One bucket per engine                                                   *)
(***************************************************************************)

\* C21: a call of check_rate_limit for one engine name, granted or refused,
\* leaves the bucket of every other name as it was, and with it the outcome
\* of a check for that other name.
C21_BucketsPerEngine ==
  (last_check # None /\ last_check[1].engine \in KnownEngines) =>
    \A f \in KnownEngines \ {last_check[1].engine} :
      /\ tat[f] = last_check[1].before[f]
      /\ GcraAllows(tat[f], now) = GcraAllows(last_check[1].before[f], now)

\* Google's bucket is empty and the sixth call, for Google, was refused,
\* while DuckDuckGo's bucket is still full
C21_Witness ==
  /\ last_check # None
  /\ last_check[1].engine = Google
  /\ ~last_check[1].granted
  /\ last_check[1].n = 6
  /\ now = 0
  /\ tat[DuckDuckGo] = TatAfter(0)

(***************************************************************************)
(* The normalization of links                                              *)
(***************************************************************************)

\* The reference rule: parse the URL, keep host and path, remove "www."
\* when the host begins with it, remove the trailing slash, lowercase.
ReferenceNorm(link) ==
  LET parsed == UrlParse(link)
      host == IF starts_with(parsed.host, www)
              THEN SubSeq(parsed.host, Len(www) + 1, Len(parsed.host))
              ELSE parsed.host
      kept == host \o parsed.path
  IN to_lowercase(IF kept # <<>> /\ kept[Len(kept)] = "/"
                  THEN SubSeq(kept, 1, Len(kept) - 1) ELSE kept)

\* C23: the normalization that the duplicate detection applies to a link is
\* the reference rule, and two links are equal for it exactly when the
\* reference rule maps them to the same string.
C23_NormalizationIsReference ==
  dedup_out # <<>> =>
    \A i, j \in 1..Len(dedup_in) :
      /\ normalize_url(dedup_in[i].link) = ReferenceNorm(dedup_in[i].link)
      /\ (normalize_url(dedup_in[i].link) = normalize_url(dedup_in[j].link))
           <=> (ReferenceNorm(dedup_in[i].link)
                  = ReferenceNorm(dedup_in[j].link))

(***************************************************************************)
(* Scores                                                                  *)
(***************************************************************************)

SameText(a, b) ==
  a.title = b.title /\ a.snippet = b.snippet /\ a.link = b.link

\* C24: score_result is a function of title, snippet, link and query: two
\* results that agree on the three get the same score for the same query,
\* whatever their source and favicon and whichever call scored them.
C24_ScoreDependsOnTextOnly ==
  \A c, d \in Calls :
    (Missed(c) /\ Missed(d) /\ req[c].query = req[d].query) =>
      \A i \in 1..Len(ret[c]), j \in 1..Len(ret[d]) :
        SameText(ret[c][i], ret[d][j]) => ret[c][i].score = ret[d][j].score

\* two calls scored the same text, one as Google's result with a favicon,
\* the other as DuckDuckGo's without
C24_Witness ==
  \E c, d \in Calls :
    /\ Missed(c) /\ Missed(d)
    /\ req[c].query = Rust /\ req[d].query = Rust
    /\ \E i \in 1..Len(ret[c]), j \in 1..Len(ret[d]) :
         /\ SameText(ret[c][i], ret[d][j])
         /\ ret[c][i].source = Google /\ ret[c][i].favicon_url = "Some"
         /\ ret[d][j].source = DuckDuckGo /\ ret[d][j].favicon_url = "None"
         /\ ret[c][i].score = ret[d][j].score
         /\ ret[c][i].score # <<0, 1>>

\* C25: every result of the list a cache miss returns was contributed by
\* an engine during that call, is that contribution in every field but the
\* score, and its score is score_result of it for the call's query.
C25_ReturnedAreScoredContributions ==
  \A c \in Calls :
    Missed(c) =>
      \A i \in 1..Len(ret[c]) :
        \E e \in Engines : \E j \in 1..Len(contrib[c][e]) :
          /\ [ret[c][i] EXCEPT !.score = <<0, 1>>] = contrib[c][e][j]
          /\ ret[c][i].score = ScoreTable[contrib[c][e][j], req[c].query]

\* a returned list with a result of each engine
C25_Witness ==
  \E c \in Calls :
    /\ Missed(c)
    /\ \E i, j \in 1..Len(ret[c]) :
         /\ ret[c][i].source = Google
         /\ ret[c][j].source = DuckDuckGo
         /\ ret[c][j].score # <<0, 1>>

\* C26: for every query, the empty one included, the scores are numbers
\* that compare (none is NaN), so sorting never fails on a comparison.
C26_ScoresComparable ==
  \A c \in Calls :
    /\ \A i \in 1..Len(ret[c]) : ~IsNaN(ret[c][i].score)
    /\ (pc[c] = "panicked" /\ \A e \in Engines : UnitDone(c, e)) =>
         \A i \in 1..Len(all_results[c]) :
           ~IsNaN(score_result(all_results[c][i], req[c].query))

\* C27: for every page that reaches an engine, computing the offset
\* (page - 1) * 10 neither goes below zero nor overflows.
C27_OffsetInRange ==
  \A c \in Calls : \A e \in Engines :
    searches[c][e] > 0 =>
      ~OffsetPanics(e, unwrap_or(req[c].page, 1), TRUE)

(***************************************************************************)
(* What the cache stores                                                   *)
(***************************************************************************)

\* C28: under every interleaving of the search calls, what a search key
\* holds is the whole final list of one call with that key: every result
\* scored for the call's query, the list in sorted order and free of
\* duplicates.
C28_StoredListsAreFinal ==
  \A k \in CacheKeys :
    cache[k] # None =>
      /\ writer[k] \in Calls
      /\ Missed(writer[k])
      /\ KeyOf(writer[k]) = k
      /\ cache[k][1].payload = to_json(ret[writer[k]])
      /\ \A i \in 1..Len(ret[writer[k]]) :
           ret[writer[k]][i].score =
             ScoreTable[Unscored(ret[writer[k]][i]), req[writer[k]].query]
      /\ \A i, j \in 1..Len(ret[writer[k]]) :
           i < j => Before(ret[writer[k]][i], ret[writer[k]][j])
      /\ NoMutualDuplicates(ret[writer[k]])
      /\ Len(ret[writer[k]]) <= Len(all_results[writer[k]])

\* a list of two is stored under the key of a call that is in its fan-out
\* with the results of one engine gathered
C28_Witness ==
  \E c \in Calls :
    /\ pc[c] = "fanout"
    /\ all_results[c] # <<>>
    /\ \E e \in Engines : ~UnitDone(c, e)
    /\ cache[KeyOf(c)] # None
    /\ Len(cache[KeyOf(c)][1].payload) = 2
    /\ Len(all_results[writer[KeyOf(c)]]) = 3

NoChecks(c) == \A e \in Engines : rl_checks[c][e] = 0

\* C29 as stated: after a cache miss that returned an empty list, an
\* identical search within the next 300 s returns the empty list from the
\* cache and consults neither the rate limiter nor an engine.
C29_EmptyListServedFromCache ==
  \A c \in Calls : \A d \in pred[c] :
    (Missed(d) /\ ret[d] = <<>> /\ Returned(c)) =>
      hit[c] /\ ret[c] = <<>> /\ NoChecks(c) /\ NoSearches(c)

\* C29 amended: a cache miss writes its list when the list is empty too;
\* when the write succeeded, a get under the key gives the empty list
\* until 300 s have passed, and a search that finds the entry returns the
\* empty list and consults neither the rate limiter nor an engine.
C29_EmptyListIsCached ==
  \A d \in Calls :
    (Missed(d) /\ ret[d] = <<>> /\ writer[KeyOf(d)] = d) =>
      /\ now < done_at[d] + TtlMs =>
           cache_get(cache, KeyOf(d), now, TRUE) = Some(<<>>)
      /\ \A c \in Calls :
           (hit[c] /\ served_by[c] = d) =>
             ret[c] = <<>> /\ NoChecks(c) /\ NoSearches(c)

\* a call was served the empty list of a call whose engines were all rate
\* limited or failed, a second later, when every limiter grants again
C29_Witness ==
  \E c, d \in Calls :
    /\ Missed(d) /\ ret[d] = <<>>
    /\ hit[c] /\ served_by[c] = d /\ ret[c] = <<>>
    /\ done_at[c] >= done_at[d] + 1000
    /\ \E e \in Engines : unit[d][e] = "denied"
    /\ \A e \in Engines : GcraAllows(tat[e], done_at[c])

(***************************************************************************)
(* Results without a snippet, results with one title                       *)
(***************************************************************************)

NoSnippet(input) == {i \in 1..Len(input) : input[i].snippet = <<>>}

OnePerSnippetAndTitle(out) ==
  /\ Cardinality(NoSnippet(out)) <= 1
  /\ \A k, l \in 1..Len(out) : out[k].title = out[l].title => k = l

\* the first result of input without a snippet
FirstNoSnippet(input) ==
  input[CHOOSE i \in NoSnippet(input) : \A j \in NoSnippet(input) : i <= j]

\* C30 as stated: the output of the duplicate removal holds at most one
\* result without a snippet and at most one per title, and of the results
\* without a snippet the one it holds, if any, is the first of them in the
\* input.
C30_NoSnippetCollapseIntoFirst ==
  dedup_out # <<>> =>
    /\ OnePerSnippetAndTitle(FirstPass)
    /\ \A k \in NoSnippet(FirstPass) :
         FirstPass[k] = FirstNoSnippet(dedup_in)

\* C30 amended: at most one result without a snippet and at most one per
\* title; the results without a snippet collapse into the first of them
\* when that one is a duplicate of no result before it.
C30_OnePerSnippetAndTitle ==
  dedup_out # <<>> =>
    /\ OnePerSnippetAndTitle(FirstPass)
    /\ \A i \in NoSnippet(dedup_in) :
         ( /\ \A j \in NoSnippet(dedup_in) : i <= j
           /\ \A j \in 1..(i - 1) : ~IsDup(dedup_in[i], dedup_in[j]) )
         => NoSnippet(FirstPass) # {}
            /\ FirstPass[CHOOSE k \in NoSnippet(FirstPass) : TRUE]
                 = dedup_in[i]

\* three results without a snippet, of three titles and three links, of
\* which the first was kept
C30_Witness ==
  /\ dedup_out # <<>>
  /\ Cardinality(NoSnippet(dedup_in)) = 3
  /\ \A i, j \in 1..3 :
       i # j => /\ dedup_in[i].title # dedup_in[j].title
                /\ normalize_url(dedup_in[i].link)
                     # normalize_url(dedup_in[j].link)
  /\ FirstPass = << dedup_in[1] >>

(***************************************************************************)
(* The score and the case of the query                                     *)
(***************************************************************************)

\* the three relevance terms of score_result for a result and a query
TitleTerm(r, q) ==
  calculate_text_relevance(unidecode(to_lowercase(r.title)),
                           unidecode(to_lowercase(q)))

SnippetTerm(r, q) ==
  calculate_text_relevance(unidecode(to_lowercase(r.snippet)),
                           unidecode(to_lowercase(q)))

\* the link term is computed with the query as it was given
LinkTerm(r, q) ==
  calculate_text_relevance(unidecode(to_lowercase(r.link)), q)

\* C31: for two queries that differ in the case of their letters only, the
\* title, snippet and link relevance terms of a result are equal, and so
\* are its two scores.
C31_ScoreIgnoresQueryCase ==
  score_out # None =>
    /\ TitleTerm(score_in.result, score_in.queries[1])
         = TitleTerm(score_in.result, score_in.queries[2])
    /\ SnippetTerm(score_in.result, score_in.queries[1])
         = SnippetTerm(score_in.result, score_in.queries[2])
    /\ LinkTerm(score_in.result, score_in.queries[1])
         = LinkTerm(score_in.result, score_in.queries[2])
    /\ score_out[1][1] = score_out[1][2]

(***************************************************************************)
(* Autocomplete: failures of the upstream, and what is cached              *)
(***************************************************************************)

\* the call went to the upstream and has returned
AcAnswered(c) == ac_call[c].pc = "done" /\ ~ac_call[c].hit

\* C32 as stated: a call whose upstream request or body failed returned the
\* empty sequence, and after a call whose upstream responded the key of its
\* query holds an entry.
C32_ResponseIsCached ==
  \A c \in 1..MaxAcCalls :
    AcAnswered(c) =>
      IF ac_call[c].outcome[1].ok
      THEN ac_cache[ac_call[c].query] # None
      ELSE ac_call[c].ret = <<>>

\* what the cache holds was extracted from a response of the upstream for
\* the key's query and expires 300 s after it was written at the latest; a
\* call that missed sent one request, a call that hit sent none
AcCacheFromResponses ==
  /\ \A q \in AcQueries :
       ac_cache[q] # None =>
         /\ ac_cache[q][1].expires <= now + TtlMs
         /\ \E d \in 1..MaxAcCalls :
              /\ AcAnswered(d)
              /\ ac_call[d].query = q
              /\ ac_call[d].outcome[1].ok
              /\ ac_call[d].ret = ac_cache[q][1].payload
  /\ \A c \in 1..MaxAcCalls :
       ac_call[c].pc = "done" =>
         ac_call[c].requests = (IF ac_call[c].hit THEN 0 ELSE 1)

\* the step of one call from the upstream request to its return
AcReturnOf(before, after, store, stored) ==
  (before.pc = "upstream" /\ after.pc = "done") =>
    IF after.outcome[1].ok
    THEN /\ after.ret = suggestions(after.outcome[1].body)
         /\ \/ stored = store
            \/ stored = [store EXCEPT ![before.query] =
                           Some([payload |-> after.ret,
                                 expires |-> now + TtlMs])]
    ELSE /\ after.ret = <<>>
         /\ stored = store

\* C32 amended: a call whose upstream request or body failed returns the
\* empty sequence and leaves the cache as it was; a call whose upstream
\* responded returns the extracted sequence and writes it, empty or not,
\* under its query with a life of 300 s, or, when the write fails, leaves
\* the cache as it was; nothing else is ever in the cache.
C32_OnlyResponsesAreCached ==
  /\ []AcCacheFromResponses
  /\ [][\A c \in 1..MaxAcCalls :
          AcReturnOf(ac_call[c], ac_call'[c], ac_cache, ac_cache')]_vars

\* the upstream failed for the first call, which returned the empty
\* sequence; the second call, for the same query, went to the upstream
\* again, and its empty sequence is in the cache
C32_Witness ==
  /\ AcAnswered(1) /\ ~ac_call[1].outcome[1].ok /\ ac_call[1].ret = <<>>
  /\ AcAnswered(2) /\ ac_call[2].outcome[1].ok
  /\ ac_call[2].query = ac_call[1].query
  /\ ac_call[2].requests = 1
  /\ ac_call[2].ret = <<>>
  /\ ac_cache[ac_call[2].query] # None
  /\ ac_cache[ac_call[2].query][1].payload = <<>>
  /\ ac_cache[ac_call[2].query][1].expires = now + TtlMs

(***************************************************************************)
(* The comparison operators of SearchResult                                *)
(***************************************************************************)

\* C34: over the results that were sorted, cmp is defined, antisymmetric
\* and transitive, and a == b holds exactly when cmp(a, b) is Equal, which
\* is exactly when score, title and link are equal.
C34_ComparisonsConsistent ==
  sort_out # None =>
    \A i, j, k \in 1..Len(sort_in) :
      /\ Comparable(sort_in[i], sort_in[j])
      /\ cmp(sort_in[i], sort_in[j]) = 0 - cmp(sort_in[j], sort_in[i])
      /\ (le(sort_in[i], sort_in[j]) /\ le(sort_in[j], sort_in[k]))
           => le(sort_in[i], sort_in[k])
      /\ (cmp(sort_in[i], sort_in[j]) = 0)
           <=> /\ sort_in[i].score = sort_in[j].score
               /\ sort_in[i].title = sort_in[j].title
               /\ sort_in[i].link = sort_in[j].link
      /\ eq(sort_in[i], sort_in[j]) <=> (cmp(sort_in[i], sort_in[j]) = 0)

(***************************************************************************)
(* The start of the process                                                *)
(***************************************************************************)

\* a search or autocomplete request has been taken up
RequestTaken ==
  \/ \E c \in Calls : pc[c] # "idle"
  \/ \E c \in 1..MaxAcCalls : ac_call[c].pc # "idle"

\* the states in which main has ended without serving
Aborted ==
  main_pc \in {"no_redis_url", "connect_failed", "flush_no_connection",
               "flush_command_failed", "bind_failed"}

\* the namespace is flushed once, before any request is taken up, and what
\* a request reads from the cache was written after the flush
FlushedOnceBeforeServing ==
  /\ flushes <= 1
  /\ main_pc = "serving" => flushes = 1
  /\ RequestTaken => main_pc = "serving"
  /\ \A c \in Calls : ~hit[c]
  /\ \A c \in 1..MaxAcCalls : ac_call[c].hit => ac_call[c].ret # << <<"o", "l", "d">> >>
  /\ main_pc \in {"no_redis_url", "connect_failed", "flush_no_connection",
                   "flush_command_failed"} => flushes = 0

\* C33 as stated: the cache is flushed exactly once before any request is
\* taken up, and when main ends without serving, it is because the
\* connection to the cache could not be established.
C33_OnlyCacheConnectionAborts ==
  /\ FlushedOnceBeforeServing
  /\ Aborted => main_pc \in {"connect_failed", "flush_no_connection"}

\* C33 amended: the cache is flushed exactly once before any request is
\* taken up; main ends without serving when REDIS_URL is unset, when the
\* cache cannot be constructed, when the flush fails for want of a
\* connection or because the command fails, and when the listener cannot
\* be bound, and in each of these cases no request is ever taken up.
C33_FlushedOnceBeforeServing ==
  /\ FlushedOnceBeforeServing
  /\ Aborted => ~RequestTaken
  /\ main_pc = "bind_failed" => flushes = 1

\* after the one flush, a search for "rust" and an autocomplete call found
\* nothing of what the earlier deployment left, and the autocomplete call
\* went to the upstream
C33_Witness ==
  /\ main_pc = "serving"
  /\ flushes = 1
  /\ pc[1] = "fanout" /\ req[1] = ReqRust
  /\ ac_call[1].pc = "done" /\ ~ac_call[1].hit /\ ac_call[1].requests = 1

=============================================================================
